---- MODULE Spec2Model ----
(***************************************************************************)
(* Verification model of the playout core:                                 *)
(*   - frame_producer_device (core/producer/frame_producer_device.cpp):    *)
(*     the clocked tick loop and the layer operations queued on its        *)
(*     serial executor;                                                    *)
(*   - transition_producer (core/producer/transition/                      *)
(*     transition_producer.cpp): receive, hand-over and compose;           *)
(*   - frame_muxer (modules/ffmpeg/producer/muxer/frame_muxer.cpp): the    *)
(*     video and audio pushes, the ready predicates, poll and clear.       *)
(* The layer state machine, the executor and the producer interface are    *)
(* not part of the sources at hand; they are modelled from the             *)
(* specification text (sections 4.1, 4.3 and 5).                           *)
(***************************************************************************)
EXTENDS Integers, Sequences, FiniteSets, TLC

\* ------------------------------------------------------------------------
\* Bounds of the model
\* ------------------------------------------------------------------------
MaxTicks == 2
MaxOps == 2
MaxDuration == 3
\* loads followed whose producer fails to initialize
MaxInitializeFailures == 1
\* frame muxer: video frames queued and audio blocks pushed on a steady
\* stream; video frames queued on a stream with sentinels, clears or
\* format changes; flush sentinels per stream, empty sentinels, calls of
\* clear, changes of the source format
MaxVideo == 4
MaxAudio == 2
MaxVideoDisturbed == 2
MaxFlush == 1
MaxEmpty == 1
MaxClear == 1
MaxChanges == 1
MaxConfigFailures == 1
MaxSends == 9
MaxShortSends == 2
MaxNameLen == 2
MaxDelayed == 1
MaxPackets == 4
MaxPolls == 6
MaxCodecDelay == 2
MaxDecodeErrors == 1

\* ------------------------------------------------------------------------
\* Values
\* ------------------------------------------------------------------------
Null == "null"

LayerIds == {1, 2}

\* producers that can be loaded on the device
DeviceProducers == {"A", "X"}

LoadOptions == {"none", "preview", "auto_play"}

\* producer_frame: eof, empty, or a payload (labelled with its producer)
Eof == [kind |-> "eof"]
Empty == [kind |-> "empty"]
Frame(p) == [kind |-> "frame", from |-> p]
\* no frame returned yet
NoFrame == [kind |-> "none"]

\* What a producer's receive() can do on one call.  "A" always delivers,
\* "X" throws on every receive, every other producer may deliver, end or
\* throw on any call.
Behaviour(p) ==
    CASE p = "A" -> {"frame"}
      [] p = "X" -> {"throw"}
      [] OTHER   -> {"frame", "eof", "throw"}

\* get_following_producer() of the stub producers: "D" nominates "F".
Following(p) == IF p = "D" THEN "F" ELSE Null

\* initialize() of a producer either returns or throws.
InitializeOutcomes(p) == IF p \in {"F", "X"} THEN {"ok", "throw"} ELSE {"ok"}

\* every stub producer
Producers == {"A", "D", "F", "S", "X"}

\* no side of the transition has been asked for a frame
NoSides == [dest |-> NoFrame, src |-> NoFrame]

NoCalls == [dest |-> {}, src |-> {}]

\* ------------------------------------------------------------------------
\* State
\* ------------------------------------------------------------------------
VARIABLES
    layers_,          \* std::map<int, layer> of the producer device
    executor_,        \* FIFO of the tasks queued on the device's executor
    pc,               \* position of the executor thread: idle / receive / rearm
    pending,          \* indices of the frames vector not yet received this tick
    frames,           \* the frames vector of the running tick
    failed,           \* the running tick raised an exception
    tick_layers,      \* the layer map as it was when the running tick began
    sent,             \* ticks whose composite reached frame_processor_->send
    faulted,          \* ticks that raised an exception
    ticks,            \* number of ticks begun
    nsub,             \* number of layer operations submitted so far
    napplied,         \* number of layer operations applied so far
    last_applied,     \* submission number of the operation applied last
    lastQuery,        \* value of the last foreground/background future
    initialize_failed, \* loads that ended with initialize's exception
    info_,            \* transition_info of the transition producer
    current_frame_,   \* unsigned short frame counter of the transition
    dest_producer_,
    source_producer_,
    org_dest_producer_,
    org_source_producer_,
    t_result,         \* frame returned by the transition's last receive
    t_calls,          \* number of receive calls on the transition
    t_skipped,        \* further receive calls, made in one run
    dest_events,      \* what the dest side did so far: "throw", "handover"
    source_events,    \* what the source side did so far
    frame_processor_, \* frame processor given to the transition's initialize
    t_sides,          \* frames the two sides yielded in the last receive
    t_called,         \* producers whose receive ran in the last receive
    init_count,       \* number of initialize calls made on each producer
    received,         \* producers whose receive has been called
    in_fps_,          \* source frame rate given to the muxer
    format_desc_,     \* target video format of the muxer
    audio_channel_layout_, \* its num_channels
    video_streams_,   \* queue of video sub-queues
    audio_streams_,   \* queue of audio sub-queues, each a sample count
    frame_buffer_,    \* frames composed and not yet returned by poll
    display_mode_,
    audio_cadence_,
    filter_,
    force_deinterlacing_,
    source_,          \* what the decoder delivered last
    emitted,          \* frames returned by poll so far
    m_last,           \* the muxer call made last and its outcome
    m_count,          \* calls made so far, by kind
    m_budget,         \* calls followed in this run, by kind
    nqueued,          \* frames put on the video sub-queues so far
    nsegments,        \* video sub-queues created so far
    apopped,          \* samples taken by pop_audio so far
    disturbed,        \* a sentinel, clear, format change or overflow occurred
    undefined,        \* outcome of undefined behaviour: none/garbage/crash
    c_type,           \* the consumer under study: "file" or "ndi"
    c_name,           \* filename_ of the file consumer, ndi_name_ of the other
    separate_key_,
    recorder_,        \* the file consumer was created for a recorder
    index_,
    ready_,           \* ready_ of each ffmpeg_consumer of the proxy
    encode_executor_, \* encode executor of each ffmpeg_consumer
    ndi_executor_,    \* executor_ of the ndi consumer
    dispatcher,       \* the thread calling send: idle, or waiting in a push
    c_last,           \* outcome of the last send
    nsent,            \* number of send calls made
    c_budget,         \* number of send calls followed in this run
    codec_delay,      \* which encoders have AV_CODEC_CAP_DELAY
    held,             \* packets each encoder of each consumer holds back
    sink,             \* how the codecs and the output behave
    c_pc,             \* life of the consumer: constructed, alive, ...
    tearing,          \* the ffmpeg_consumer whose destructor is running
    d_pc,             \* position of that destructor
    flush_,           \* audio_full and video_full of flush_encoders
    c_log,            \* what each destructor has done so far, in order
    packets_,         \* packet queue of the video decoder
    cap_delay,        \* the video codec has CODEC_CAP_DELAY
    buffered,         \* frames delayed inside the video codec, oldest first
    has_frame_rate,   \* avg_frame_rate.den of the video stream is not 0
    file_frame_number_,
    v_result,         \* what the decoder's last poll returned
    v_pushes,         \* push calls made on the decoder
    v_polls,          \* poll calls made on the decoder
    v_errors,         \* decode calls that ended with an exception
    flush_pushed,     \* flush packets accepted by push so far
    sentinels,        \* flush_video sentinels returned by poll so far
    drained,          \* frames poll returned with a flush packet in front
    discarded         \* frames avcodec_flush_buffers threw away so far

deviceVars == <<layers_, executor_, pc, pending, frames, failed, tick_layers,
                sent, faulted, ticks, nsub, napplied, last_applied, lastQuery,
                initialize_failed>>

transitionVars == <<info_, current_frame_, dest_producer_, source_producer_,
                    org_dest_producer_, org_source_producer_, t_result,
                    t_calls, t_skipped, dest_events, source_events,
                    frame_processor_, t_sides, t_called, init_count,
                    received>>

muxerVars == <<in_fps_, format_desc_, audio_channel_layout_, video_streams_,
               audio_streams_, frame_buffer_, display_mode_, audio_cadence_,
               filter_, force_deinterlacing_, source_, emitted, m_last,
               m_count,
               m_budget, nqueued, nsegments, apopped, disturbed, undefined>>

consumerVars == <<c_type, c_name, separate_key_, recorder_, index_, ready_,
                  encode_executor_, ndi_executor_, dispatcher, c_last, nsent,
                  c_budget, codec_delay, held, sink, c_pc, tearing, d_pc,
                  flush_, c_log>>

decoderVars == <<packets_, cap_delay, buffered, has_frame_rate,
                 file_frame_number_, v_result, v_pushes, v_polls, v_errors,
                 flush_pushed, sentinels, drained, discarded>>

vars == <<deviceVars, transitionVars, muxerVars, consumerVars, decoderVars>>

\* ------------------------------------------------------------------------
\* Layer (specification section 4.3)
\* ------------------------------------------------------------------------
EmptyMap == [x \in {} |-> Null]

NewLayer == [foreground |-> Null, background |-> Null,
             state |-> "stopped", last_frame |-> Empty]

layer_state(l) ==
    IF l.foreground = Null /\ l.background = Null THEN "empty" ELSE l.state

layer_play(l) ==
    CASE layer_state(l) = "paused"  -> [l EXCEPT !.state = "playing"]
      [] layer_state(l) = "stopped" ->
            IF l.foreground = Null
            THEN [l EXCEPT !.foreground = l.background,
                           !.background = Null, !.state = "playing"]
            ELSE [l EXCEPT !.state = "playing"]
      [] OTHER -> l

layer_load(l, p, option) ==
    CASE layer_state(l) = "empty" ->
            IF option = "preview"
            THEN [foreground |-> p, background |-> Null,
                  state |-> "paused", last_frame |-> Empty]
            ELSE LET loaded == [foreground |-> Null, background |-> p,
                                state |-> "stopped", last_frame |-> Empty]
                 IN  IF option = "auto_play" THEN layer_play(loaded) ELSE loaded
      [] layer_state(l) = "playing" ->
            IF option = "auto_play"
            THEN layer_play([l EXCEPT !.background = p])
            ELSE [l EXCEPT !.background = p]
      [] layer_state(l) = "paused"  -> [l EXCEPT !.background = p]
      [] OTHER                      -> [l EXCEPT !.foreground = p]

layer_pause(l) ==
    IF layer_state(l) = "playing" THEN [l EXCEPT !.state = "paused"] ELSE l

layer_stop(l) ==
    IF layer_state(l) \in {"playing", "paused"}
    THEN [l EXCEPT !.state = "stopped", !.last_frame = Empty]
    ELSE l

layer_foreground(l) == l.foreground

layer_background(l) == l.background

\* layer::receive: the set of possible <<frame, layer afterwards>> outcomes.
\* Never throws outward: a throwing producer is dropped and the layer
\* emits empty; at eof the following producer takes over and receive is
\* retried once.
layer_receive(l) ==
    CASE layer_state(l) = "paused" -> {[frame |-> l.last_frame, layer |-> l]}
      [] layer_state(l) = "playing" /\ l.foreground # Null ->
            LET fg == l.foreground
                dropped == [frame |-> Empty,
                            layer |-> [l EXCEPT !.foreground = Null,
                                                !.last_frame = Empty]]
                deliver(p) == [frame |-> Frame(p),
                               layer |-> [l EXCEPT !.foreground = p,
                                                   !.last_frame = Frame(p)]]
                silent(p) == [frame |-> Empty,
                              layer |-> [l EXCEPT !.foreground = p,
                                                  !.last_frame = Empty]]
                retry(p) ==
                    {IF o = "frame" THEN deliver(p)
                     ELSE IF o = "throw" THEN dropped ELSE silent(p)
                        : o \in Behaviour(p)}
                ended ==
                    IF Following(fg) = Null THEN {silent(fg)}
                    ELSE UNION {IF i = "throw" THEN {dropped}
                                ELSE retry(Following(fg))
                                    : i \in InitializeOutcomes(Following(fg))}
            IN  UNION {IF o = "frame" THEN {deliver(fg)}
                       ELSE IF o = "throw" THEN {dropped} ELSE ended
                          : o \in Behaviour(fg)}
      [] OTHER -> {[frame |-> Empty, layer |-> l]}

\* ------------------------------------------------------------------------
\* Executor (specification section 5: one worker draining a FIFO of tasks)
\* ------------------------------------------------------------------------
Task(op, render_layer, producer, option) ==
    [op |-> op, layer |-> render_layer, producer |-> producer,
     option |-> option, seq |-> 0]

TickTask == Task("tick", 0, Null, Null)

begin_invoke(queue, task) == Append(queue, task)

\* ------------------------------------------------------------------------
\* frame_producer_device: the lambdas run on the executor
\* ------------------------------------------------------------------------
Put(layers, k, v) ==
    [x \in DOMAIN layers \cup {k} |-> IF x = k THEN v ELSE layers[x]]

Erase(layers, k) == [x \in DOMAIN layers \ {k} |-> layers[x]]

\* layers_[render_layer].load(producer, option): operator[] inserts
load_task(layers, render_layer, producer, option) ==
    LET l == IF render_layer \in DOMAIN layers
             THEN layers[render_layer] ELSE NewLayer
    IN  Put(layers, render_layer, layer_load(l, producer, option))

pause_task(layers, render_layer) ==
    IF render_layer \in DOMAIN layers
    THEN [layers EXCEPT ![render_layer] = layer_pause(@)]
    ELSE layers

play_task_insert(layers, render_layer) ==
    LET l == IF render_layer \in DOMAIN layers
             THEN layers[render_layer] ELSE NewLayer
    IN  Put(layers, render_layer, layer_play(l))

play_task(layers, render_layer) ==
    IF render_layer \in DOMAIN layers
    THEN [layers EXCEPT ![render_layer] = layer_play(@)]
    ELSE layers

stop_task(layers, render_layer) ==
    IF render_layer \in DOMAIN layers
    THEN LET stopped == layer_stop(layers[render_layer])
         IN  IF layer_background(stopped) = Null
             THEN Erase(layers, render_layer)
             ELSE [layers EXCEPT ![render_layer] = stopped]
    ELSE layers

clear_task(layers, render_layer) ==
    IF render_layer \in DOMAIN layers
    THEN Erase(layers, render_layer)
    ELSE layers

clear_all_task(layers) == EmptyMap

foreground_task(layers, render_layer) ==
    IF render_layer \in DOMAIN layers
    THEN layer_foreground(layers[render_layer]) ELSE Null

background_task(layers, render_layer) ==
    IF render_layer \in DOMAIN layers
    THEN layer_background(layers[render_layer]) ELSE Null

Queries == {"foreground", "background"}

\* effect of a queued lambda on the layer map
apply_task(layers, t) ==
    CASE t.op = "load"  -> load_task(layers, t.layer, t.producer, t.option)
      [] t.op = "pause" -> pause_task(layers, t.layer)
      [] t.op = "play"  -> play_task(layers, t.layer)
      [] t.op = "stop"  -> stop_task(layers, t.layer)
      [] t.op = "clear" -> clear_task(layers, t.layer)
      [] t.op = "clear_all" -> clear_all_task(layers)
      [] OTHER -> layers

\* value a queued query lambda returns
query_task(layers, t) ==
    IF t.op = "foreground" THEN foreground_task(layers, t.layer)
    ELSE background_task(layers, t.layer)

\* ------------------------------------------------------------------------
\* frame_producer_device: operations called from client threads
\* ------------------------------------------------------------------------
\* a client thread queues a lambda on the executor
Submit(t) ==
    /\ nsub < MaxOps
    /\ executor_' = begin_invoke(executor_, [t EXCEPT !.seq = nsub + 1])
    /\ nsub' = nsub + 1
    /\ UNCHANGED <<layers_, pc, pending, frames, failed, tick_layers, sent,
                   faulted, ticks, napplied, last_applied, lastQuery>>
    /\ UNCHANGED initialize_failed
    /\ UNCHANGED <<transitionVars, muxerVars, consumerVars, decoderVars>>

\* a client thread runs the lambda itself instead of queueing it
RunInCaller(t) ==
    /\ nsub < MaxOps
    /\ layers_' = apply_task(layers_, t)
    /\ nsub' = nsub + 1
    /\ napplied' = napplied + 1
    /\ last_applied' = nsub + 1
    /\ lastQuery' = IF t.op \in Queries
                    THEN [seq |-> nsub + 1, seen |-> napplied,
                          value |-> query_task(layers_, t)]
                    ELSE lastQuery
    /\ UNCHANGED <<executor_, pc, pending, frames, failed, tick_layers, sent,
                   faulted, ticks>>
    /\ UNCHANGED initialize_failed
    /\ UNCHANGED <<transitionVars, muxerVars, consumerVars, decoderVars>>

\* producer->initialize throws in the caller of load: the exception leaves
\* load
InitializeThrew ==
    /\ initialize_failed < MaxInitializeFailures
    /\ initialize_failed' = initialize_failed + 1
    /\ UNCHANGED <<layers_, executor_, pc, pending, frames, failed,
                   tick_layers, sent, faulted, ticks, nsub, napplied,
                   last_applied, lastQuery>>
    /\ UNCHANGED <<transitionVars, muxerVars, consumerVars, decoderVars>>

load_queued_first(render_layer, producer, option) ==
    \E i \in InitializeOutcomes(producer) :
        /\ nsub < MaxOps
        /\ i = "throw" => initialize_failed < MaxInitializeFailures
        /\ executor_' = begin_invoke(executor_,
                [Task("load", render_layer, producer, option)
                    EXCEPT !.seq = nsub + 1])
        /\ nsub' = nsub + 1
        /\ initialize_failed' =
                initialize_failed + (IF i = "throw" THEN 1 ELSE 0)
        /\ UNCHANGED <<layers_, pc, pending, frames, failed, tick_layers,
                       sent, faulted, ticks, napplied, last_applied,
                       lastQuery>>
        /\ UNCHANGED <<transitionVars, muxerVars, consumerVars, decoderVars>>

load(render_layer, producer, option) ==
    \E i \in InitializeOutcomes(producer) :
        IF i = "ok"
        THEN Submit(Task("load", render_layer, producer, option))
        ELSE InitializeThrew

pause_in_caller(render_layer) ==
    RunInCaller(Task("pause", render_layer, Null, Null))

pause(render_layer) == Submit(Task("pause", render_layer, Null, Null))

play(render_layer) == Submit(Task("play", render_layer, Null, Null))

stop(render_layer) == Submit(Task("stop", render_layer, Null, Null))

clear(render_layer) == Submit(Task("clear", render_layer, Null, Null))

clear_all == Submit(Task("clear_all", 0, Null, Null))

foreground_in_caller(render_layer) ==
    RunInCaller(Task("foreground", render_layer, Null, Null))

foreground(render_layer) ==
    Submit(Task("foreground", render_layer, Null, Null))

background(render_layer) ==
    Submit(Task("background", render_layer, Null, Null))

\* ------------------------------------------------------------------------
\* The executor thread
\* ------------------------------------------------------------------------
\* the executor runs the queued lambda at the head of its queue
RunTask ==
    /\ pc = "idle"
    /\ executor_ # <<>>
    /\ Head(executor_).op # "tick"
    /\ LET t == Head(executor_)
       IN  /\ layers_' = apply_task(layers_, t)
           /\ last_applied' = t.seq
           /\ lastQuery' = IF t.op \in Queries
                           THEN [seq |-> t.seq, seen |-> napplied,
                                 value |-> query_task(layers_, t)]
                           ELSE lastQuery
    /\ executor_' = Tail(executor_)
    /\ napplied' = napplied + 1
    /\ UNCHANGED <<pc, pending, frames, failed, tick_layers, sent, faulted,
                   ticks, nsub>>
    /\ UNCHANGED initialize_failed
    /\ UNCHANGED <<transitionVars, muxerVars, consumerVars, decoderVars>>

\* receive(layers): the frames vector, one slot per layer, all empty
new_frames(layers) == [i \in 1..Cardinality(DOMAIN layers) |-> Empty]

\* receive(layers): the layer that slot i of the vector is received from
\* (layers.begin() advanced by i; slots count from 1 here)
layer_at_begin(layers, i) ==
    CHOOSE k \in DOMAIN layers : \A j \in DOMAIN layers : k <= j

layer_at_reversed(layers, i) ==
    CHOOSE k \in DOMAIN layers :
        Cardinality({j \in DOMAIN layers : j > k}) = i - 1

layer_at(layers, i) ==
    CHOOSE k \in DOMAIN layers :
        Cardinality({j \in DOMAIN layers : j < k}) = i - 1

\* tick: the catch block
tick_catch_keep(layers) == layers

tick_catch(layers) == EmptyMap

\* tick: frame_processor_->send(composite_frame(frames)) returned
submit_unless_empty(log, n, fs) == IF fs = <<>> THEN log ELSE Append(log, n)

submit(log, n, fs) == Append(log, n)

\* tick: the re-arm after the try block
rearm_after_success(queue, raised) ==
    IF raised THEN queue ELSE begin_invoke(queue, TickTask)

rearm_ahead(queue, raised) == <<TickTask>> \o queue

rearm(queue, raised) == begin_invoke(queue, TickTask)

\* the executor starts the tick at the head of its queue
RunTick ==
    /\ pc = "idle"
    /\ executor_ # <<>>
    /\ Head(executor_).op = "tick"
    /\ ticks < MaxTicks
    /\ executor_' = Tail(executor_)
    /\ ticks' = ticks + 1
    /\ pc' = "receive"
    /\ frames' = new_frames(layers_)
    /\ pending' = DOMAIN new_frames(layers_)
    /\ tick_layers' = layers_
    /\ failed' = FALSE
    /\ UNCHANGED <<layers_, sent, faulted, nsub, napplied, last_applied,
                   lastQuery>>
    /\ UNCHANGED initialize_failed
    /\ UNCHANGED <<transitionVars, muxerVars, consumerVars, decoderVars>>

\* one iteration of the parallel loop: frames[i] = it->second.receive()
TickReceive ==
    /\ pc = "receive"
    /\ \E i \in pending :
        LET id == layer_at(layers_, i)
        IN  \E o \in layer_receive(layers_[id]) :
                /\ frames' = [frames EXCEPT ![i] = o.frame]
                /\ layers_' = [layers_ EXCEPT ![id] = o.layer]
                /\ pending' = pending \ {i}
    /\ UNCHANGED <<executor_, pc, failed, tick_layers, sent, faulted, ticks,
                   nsub, napplied, last_applied, lastQuery>>
    /\ UNCHANGED initialize_failed
    /\ UNCHANGED <<transitionVars, muxerVars, consumerVars, decoderVars>>

\* the gather is complete and send returns
TickSend ==
    /\ pc = "receive"
    /\ pending = {}
    /\ sent' = submit(sent, ticks, frames)
    /\ pc' = "rearm"
    /\ UNCHANGED <<layers_, executor_, pending, frames, failed, tick_layers,
                   faulted, ticks, nsub, napplied, last_applied, lastQuery>>
    /\ UNCHANGED initialize_failed
    /\ UNCHANGED <<transitionVars, muxerVars, consumerVars, decoderVars>>

\* an exception is raised while gathering or by send; the catch block runs
TickThrow ==
    /\ pc = "receive"
    /\ failed' = TRUE
    /\ layers_' = tick_catch(layers_)
    /\ faulted' = faulted \cup {ticks}
    /\ pc' = "rearm"
    /\ UNCHANGED <<executor_, pending, frames, tick_layers, sent, ticks,
                   nsub, napplied, last_applied, lastQuery>>
    /\ UNCHANGED initialize_failed
    /\ UNCHANGED <<transitionVars, muxerVars, consumerVars, decoderVars>>

\* executor_.begin_invoke([=]{tick();}) at the end of tick
TickRearm ==
    /\ pc = "rearm"
    /\ executor_' = rearm(executor_, failed)
    /\ pc' = "idle"
    /\ pending' = {}
    /\ frames' = <<>>
    /\ tick_layers' = EmptyMap
    /\ failed' = FALSE
    /\ UNCHANGED <<layers_, sent, faulted, ticks, nsub, napplied,
                   last_applied, lastQuery>>
    /\ UNCHANGED initialize_failed
    /\ UNCHANGED <<transitionVars, muxerVars, consumerVars, decoderVars>>

ExecutorStep == RunTask \/ RunTick \/ TickReceive \/ TickSend \/ TickThrow
                    \/ TickRearm

NoQuery == [seq |-> 0, seen |-> 0, value |-> Null]

\* transition variables while the device is the system under study
TransitionIdle ==
    /\ info_ = [type |-> "cut", duration |-> 0, direction |-> "from_left"]
    /\ current_frame_ = 0
    /\ dest_producer_ = Null
    /\ source_producer_ = Null
    /\ org_dest_producer_ = Null
    /\ org_source_producer_ = Null
    /\ t_result = NoFrame
    /\ t_calls = 0
    /\ t_skipped = 0
    /\ dest_events = {}
    /\ source_events = {}
    /\ frame_processor_ = Null
    /\ t_sides = NoSides
    /\ t_called = NoCalls
    /\ init_count = [p \in Producers |-> 0]
    /\ received = {}

\* frame_producer_device::implementation constructor
DeviceInit ==
    /\ layers_ = EmptyMap
    /\ executor_ = begin_invoke(<<>>, TickTask)
    /\ pc = "idle"
    /\ pending = {}
    /\ frames = <<>>
    /\ failed = FALSE
    /\ tick_layers = EmptyMap
    /\ sent = <<>>
    /\ faulted = {}
    /\ ticks = 0
    /\ nsub = 0
    /\ napplied = 0
    /\ last_applied = 0
    /\ lastQuery = NoQuery
    /\ initialize_failed = 0

\* the decoder has delivered nothing yet
NoSource == [frame |-> [field |-> "none", width |-> 0, height |-> 0],
             deinterlace_hint |-> FALSE]

\* result of a muxer call that has not been made
NoCall == [op |-> "none", threw |-> FALSE, ready |-> FALSE,
           result |-> "none"]

NoBudget == [video |-> 0, audio |-> 0, flush_video |-> 0, flush_audio |-> 0,
             empty |-> 0, clear |-> 0, change |-> 0, config_failure |-> 0]

\* muxer variables while another component is the system under study
MuxerIdle ==
    /\ in_fps_ = 0
    /\ format_desc_ = Null
    /\ audio_channel_layout_ = 0
    /\ video_streams_ = <<>>
    /\ audio_streams_ = <<>>
    /\ frame_buffer_ = <<>>
    /\ display_mode_ = "invalid"
    /\ audio_cadence_ = <<>>
    /\ filter_ = "idle"
    /\ force_deinterlacing_ = FALSE
    /\ source_ = NoSource
    /\ emitted = <<>>
    /\ m_last = NoCall
    /\ m_count = NoBudget
    /\ m_budget = NoBudget
    /\ nqueued = 0
    /\ nsegments = 0
    /\ apopped = 0
    /\ disturbed = FALSE
    /\ undefined = "none"

\* an executor with nothing queued and no worker
NoExecutor == [size |-> 0, busy |-> FALSE, thread |-> "none", capacity |-> 0]

NoSend == [full |-> FALSE, enqueued |-> FALSE, waited |-> FALSE,
           dropped |-> FALSE, immediate |-> FALSE]

NoFlush == [audio_full |-> FALSE, video_full |-> FALSE, written |-> 0]

NoDelay == [audio |-> FALSE, video |-> FALSE]

NoPackets == [audio |-> 0, video |-> 0]

\* consumer variables while another component is the system under study
ConsumerIdle ==
    /\ c_type = "none"
    /\ c_name = <<>>
    /\ separate_key_ = FALSE
    /\ recorder_ = FALSE
    /\ index_ = 0
    /\ ready_ = EmptyMap
    /\ encode_executor_ = EmptyMap
    /\ ndi_executor_ = NoExecutor
    /\ dispatcher = "idle"
    /\ c_last = NoSend
    /\ nsent = 0
    /\ c_budget = 0
    /\ codec_delay = NoDelay
    /\ held = EmptyMap
    /\ sink = "normal"
    /\ c_pc = "none"
    /\ tearing = "none"
    /\ d_pc = "none"
    /\ flush_ = NoFlush
    /\ c_log = EmptyMap

\* what poll has returned before the first poll
NoPoll == [kind |-> "none", id |-> 0]

\* decoder variables while another component is the system under study
DecoderIdle ==
    /\ packets_ = <<>>
    /\ cap_delay = FALSE
    /\ buffered = <<>>
    /\ has_frame_rate = FALSE
    /\ file_frame_number_ = 0
    /\ v_result = NoPoll
    /\ v_pushes = 0
    /\ v_polls = 0
    /\ v_errors = 0
    /\ flush_pushed = 0
    /\ sentinels = 0
    /\ drained = 0
    /\ discarded = {}

Init ==
    DeviceInit /\ TransitionIdle /\ MuxerIdle /\ ConsumerIdle /\ DecoderIdle

Load == \E id \in LayerIds, p \in DeviceProducers, o \in LoadOptions :
            load(id, p, o)
Pause == \E id \in LayerIds : pause(id)
Play == \E id \in LayerIds : play(id)
Stop == \E id \in LayerIds : stop(id)
Clear == \E id \in LayerIds : clear(id)
ClearAll == clear_all
Foreground == \E id \in LayerIds : foreground(id)
Background == \E id \in LayerIds : background(id)

Next ==
    \/ Load
    \/ Pause
    \/ Play
    \/ Stop
    \/ Clear
    \/ ClearAll
    \/ Foreground
    \/ Background
    \/ RunTask
    \/ RunTick
    \/ TickReceive
    \/ TickSend
    \/ TickThrow
    \/ TickRearm

Spec == Init /\ [][Next]_vars

\* the executor thread keeps running
FairSpec == Spec /\ WF_vars(ExecutorStep)

\* ------------------------------------------------------------------------
\* transition_producer
\* ------------------------------------------------------------------------
TransitionTypes == {"cut", "mix", "push", "slide", "wipe"}

Directions == {"from_left", "from_right"}

TransitionInfos ==
    [type : TransitionTypes, duration : 0..MaxDuration, direction : Directions]

\* producers handed to the transition as dest and as source
DestProducers == {"A", "D", "X"}

SourceProducers == {"A", "S"}

\* number of receive calls followed on one transition
MaxCalls == MaxDuration + 2

\* unsigned short current_frame_
CounterModulus == 65536

\* results of static_cast<unsigned char>(256.0): the value is out of range
\* of the destination type, so the conversion is undefined; builds either
\* wrap to 0 or saturate to 255
UCharOutOfRange == {0, 255}

get_following_producer_original == org_dest_producer_

get_following_producer == dest_producer_

\* if(current_frame_++ >= info_.duration)
transition_expired(current_frame, duration) == current_frame >= duration

\* receive(frame_producer_ptr& producer): the possible outcomes, each the
\* frame returned, the value left in producer, and what happened on the way
\* catch(...) { producer = nullptr; }
after_throw_kept(producer) == producer

after_throw(producer) == Null

\* receive(frame_producer_ptr& producer): the possible outcomes, each the
\* frame returned, the value left in producer, what happened on the way,
\* the producers whose receive was called and those whose initialize was
RECURSIVE receive_producer(_)
receive_producer(producer) ==
    IF producer = Null
    THEN {[frame |-> Eof, producer |-> Null, events |-> {},
           calls |-> {}, inits |-> {}]}
    ELSE UNION {
        CASE o = "frame" ->
                {[frame |-> Frame(producer), producer |-> producer,
                  events |-> {}, calls |-> {producer}, inits |-> {}]}
          [] o = "throw" ->
                {[frame |-> Eof, producer |-> after_throw(producer),
                  events |-> {"throw"}, calls |-> {producer},
                  inits |-> {}]}
          [] OTHER ->
                IF Following(producer) = Null
                THEN {[frame |-> Eof, producer |-> producer, events |-> {},
                       calls |-> {producer}, inits |-> {}]}
                ELSE UNION {
                    IF i = "throw"
                    THEN {[frame |-> Eof, producer |-> Null,
                           events |-> {"throw"}, calls |-> {producer},
                           inits |-> {Following(producer)}]}
                    ELSE {[r EXCEPT !.events = @ \cup {"handover"},
                                    !.calls = @ \cup {producer},
                                    !.inits = @ \cup {Following(producer)}]
                            : r \in receive_producer(Following(producer))}
                        : i \in InitializeOutcomes(Following(producer))}
            : o \in Behaviour(producer)}

\* a producer_frame moved into a transform_frame: eof becomes an empty frame
transform_frame(f) == IF f = Eof THEN Empty ELSE f

\* static_cast<unsigned char>(alpha*256.0), alpha = current_frame/duration
audio_volume(current_frame, duration, ub) ==
    IF (current_frame * 256) \div duration > 255
    THEN ub
    ELSE (current_frame * 256) \div duration

\* my_src_frame.audio_volume(255-volume)
src_volume_same(volume) == volume

src_volume(volume) == 255 - volume

Dir(info) == IF info.direction = "from_left" THEN 1 ELSE -1

\* a value n/duration
Ratio(n, duration) == [num |-> n, den |-> duration]

\* compose(dest_frame, src_frame), with current_frame_ already incremented
compose_either_eof(dest_frame, src_frame, current_frame, info, ub) ==
    IF dest_frame = Eof \/ src_frame = Eof THEN Eof ELSE src_frame

compose(dest_frame, src_frame, current_frame, info, ub) ==
    IF dest_frame = Eof /\ src_frame = Eof THEN Eof
    ELSE IF info.type = "cut" THEN src_frame
    ELSE
        LET D == info.duration
            volume == audio_volume(current_frame, D, ub)
            alpha == Ratio(current_frame, D)
            dir == Dir(info)
            slide_x == Ratio((current_frame - D) * dir, D)
        IN  [kind |-> "composite",
             src |-> [frame |-> transform_frame(src_frame),
                      audio_volume |-> src_volume(volume),
                      translate |->
                        IF info.type = "push"
                        THEN <<Ratio(current_frame * dir, D), Ratio(0, D)>>
                        ELSE Null],
             dest |-> [frame |-> transform_frame(dest_frame),
                       audio_volume |-> volume,
                       alpha |-> IF info.type = "mix" THEN alpha ELSE Null,
                       translate |->
                        IF info.type \in {"slide", "push", "wipe"}
                        THEN <<slide_x, Ratio(0, D)>>
                        ELSE Null,
                       texcoord |->
                        IF info.type = "wipe"
                        THEN <<slide_x, Ratio(D, D),
                               Ratio(D - (D - current_frame) * dir, D),
                               Ratio(0, D)>>
                        ELSE Null]]

\* producers a producer's initialize is invoked on: the producer itself
\* and, for a producer with a following producer, that producer as well
\* (a transition initialises its dest in its own initialize)
initialize_targets(p) ==
    IF Following(p) = Null THEN {p} ELSE {p, Following(p)}

\* set_leading_producer, called before the transition is first received;
\* the leading producer is the one that played before and has been
\* initialised once when it was loaded
SetLeadingProducer ==
    /\ t_calls = 0
    /\ \E p \in SourceProducers :
        /\ source_producer_' = p
        /\ org_source_producer_' = p
        /\ init_count' = [init_count EXCEPT ![p] = 1]
    /\ UNCHANGED <<info_, current_frame_, dest_producer_, org_dest_producer_,
                   t_result, t_calls, t_skipped, dest_events,
                   source_events, frame_processor_, t_sides, t_called,
                   received>>
    /\ UNCHANGED <<deviceVars, muxerVars, consumerVars, decoderVars>>

\* transition_producer::implementation::initialize, called by the device's
\* load before the transition reaches a layer
TransitionInitialize ==
    /\ frame_processor_ = Null
    /\ init_count[dest_producer_] = 0
    /\ init_count' = [p \in Producers |->
                        IF p \in initialize_targets(dest_producer_)
                        THEN init_count[p] + 1 ELSE init_count[p]]
    /\ \E o \in UNION {InitializeOutcomes(p)
                        : p \in initialize_targets(dest_producer_)} :
        frame_processor_' = IF o = "throw" THEN Null ELSE "frame_processor"
    /\ UNCHANGED <<info_, current_frame_, dest_producer_, source_producer_,
                   org_dest_producer_, org_source_producer_, t_result,
                   t_calls, t_skipped, dest_events, source_events, t_sides,
                   t_called, received>>
    /\ UNCHANGED <<deviceVars, muxerVars, consumerVars, decoderVars>>

\* transition_producer::implementation::receive()
TransitionReceive ==
    /\ frame_processor_ # Null
    /\ t_calls < MaxCalls
    /\ t_calls' = t_calls + 1
    /\ current_frame_' = (current_frame_ + 1) % CounterModulus
    /\ IF transition_expired(current_frame_, info_.duration)
       THEN /\ t_result' = Eof
            /\ t_sides' = NoSides
            /\ t_called' = NoCalls
            /\ UNCHANGED <<dest_producer_, source_producer_, dest_events,
                           source_events, init_count, received>>
       ELSE \E d \in receive_producer(dest_producer_),
               s \in receive_producer(source_producer_),
               ub \in UCharOutOfRange :
                /\ dest_producer_' = d.producer
                /\ source_producer_' = s.producer
                /\ dest_events' = dest_events \cup d.events
                /\ source_events' = source_events \cup s.events
                /\ t_sides' = [dest |-> d.frame, src |-> s.frame]
                /\ t_called' = [dest |-> d.calls, src |-> s.calls]
                /\ received' = received \cup d.calls \cup s.calls
                /\ init_count' = [p \in Producers |->
                        IF p \in d.inits \cup s.inits
                        THEN init_count[p] + 1 ELSE init_count[p]]
                /\ t_result' = compose(d.frame, s.frame, current_frame_',
                                       info_, ub)
    /\ UNCHANGED <<info_, org_dest_producer_, org_source_producer_,
                   frame_processor_, t_skipped>>
    /\ UNCHANGED <<deviceVars, muxerVars, consumerVars, decoderVars>>

\* lengths of a run of receive calls on an expired transition: from a
\* counter value the calls followed one by one can reach up to the last
\* value of the unsigned short
RunLengths == {CounterModulus - k : k \in 1..MaxCalls}

\* n receive calls in a row on a transition whose counter is at or past
\* the duration before each of them: each call returns eof at
\* current_frame_++ >= info_.duration and calls no producer
TransitionReceiveRun ==
    /\ frame_processor_ # Null
    /\ t_skipped = 0
    /\ \E n \in RunLengths :
        /\ transition_expired(current_frame_, info_.duration)
        /\ current_frame_ + n - 1 < CounterModulus
        /\ current_frame_' = (current_frame_ + n) % CounterModulus
        /\ t_skipped' = n
    /\ t_result' = Eof
    /\ t_sides' = NoSides
    /\ t_called' = NoCalls
    /\ UNCHANGED <<info_, dest_producer_, source_producer_,
                   org_dest_producer_, org_source_producer_, t_calls,
                   dest_events, source_events, frame_processor_, init_count,
                   received>>
    /\ UNCHANGED <<deviceVars, muxerVars, consumerVars, decoderVars>>

\* transition_producer::implementation constructor
TransitionConstructed ==
    /\ info_ \in TransitionInfos
    /\ dest_producer_ \in DestProducers
    /\ org_dest_producer_ = dest_producer_
    /\ source_producer_ = Null
    /\ org_source_producer_ = Null
    /\ current_frame_ = 0
    /\ t_result = NoFrame
    /\ t_calls = 0
    /\ t_skipped = 0
    /\ dest_events = {}
    /\ source_events = {}
    /\ frame_processor_ = Null
    /\ t_sides = NoSides
    /\ t_called = NoCalls
    /\ init_count = [p \in Producers |-> 0]
    /\ received = {}

TransitionNext ==
    SetLeadingProducer \/ TransitionInitialize \/ TransitionReceive

TransitionInit ==
    /\ DeviceInit /\ TransitionConstructed /\ MuxerIdle /\ ConsumerIdle
    /\ DecoderIdle

TransitionSpec == TransitionInit /\ [][TransitionNext]_vars

\* a transition that is received for longer than its counter can count
TransitionWrapInit ==
    /\ DeviceInit /\ TransitionConstructed /\ MuxerIdle /\ ConsumerIdle
    /\ DecoderIdle

TransitionWrapNext ==
    \/ SetLeadingProducer
    \/ TransitionInitialize
    \/ TransitionReceive
    \/ TransitionReceiveRun

TransitionWrapSpec == TransitionWrapInit /\ [][TransitionWrapNext]_vars

\* ------------------------------------------------------------------------
\* The frame muxer
\* ------------------------------------------------------------------------
\* if(video_streams_.back().size() > 32)
VideoStreamLimit == 32

\* if(audio_streams_.back().size() > 32*audio_cadence_.front()*num_channels)
AudioStreamLimit == 32

\* source frame rates and target formats the muxer is constructed with
SourceFps == {25, 50}

Cadences == {<<2>>, <<1, 2>>, <<2, 2, 1>>}

TargetFormats ==
    {[fps |-> f[1], field_mode |-> f[2], width |-> 1920, height |-> 1080,
      audio_cadence |-> c]
        : f \in {<<25, "progressive">>, <<25, "upper">>,
                 <<50, "progressive">>},
          c \in Cadences}

ChannelCounts == {2}

\* decoded frames: field mode, width and height
FrameFormats ==
    {[field |-> "progressive", width |-> 1920, height |-> 1080],
     [field |-> "upper", width |-> 1920, height |-> 1080],
     [field |-> "upper", width |-> 720, height |-> 576]}

\* what the decoder delivers: a frame format and the deinterlace hint
Sources ==
    {[frame |-> f, deinterlace_hint |-> FALSE] : f \in FrameFormats}
        \cup {[frame |-> [field |-> "upper", width |-> 1920,
                          height |-> 1080],
               deinterlace_hint |-> TRUE]}

\* sizes of the decoded audio blocks, in samples per channel
AudioBlocks == {1, 4}

\* what an operation on an empty container or past its end can do
UndefinedOutcomes == {"garbage", "crash"}

NoAudio == [at |-> 0, n |-> 0]

\* a write_frame on a video sub-queue: the number it was queued under, the
\* sub-queue it was pushed on, and the audio attached by poll
WriteFrame(id, sub) ==
    [kind |-> "write", id |-> id, sub |-> sub, audio |-> NoAudio]

\* the frame read from an empty sub-queue
GarbageFrame == WriteFrame(0, 0)

\* boost::range::rotate(audio_cadence_, std::end(audio_cadence_)-1)
rotate_right(c) == <<c[Len(c)]>> \o SubSeq(c, 1, Len(c) - 1)

\* boost::range::rotate(audio_cadence_, std::begin(audio_cadence_)+1)
rotate_left(c) == Tail(c) \o <<Head(c)>>

\* field mode of a decoded frame
get_mode(frame) == frame.field

\* display mode for a source and a target field mode and frame rate
get_display_mode(in_mode, in_fps, out_mode, out_fps) ==
    IF in_fps = out_fps
    THEN IF in_mode # "progressive" /\ out_mode = "progressive"
         THEN "deinterlace" ELSE "simple"
    ELSE IF in_fps = 2 * out_fps
    THEN IF in_mode # "progressive" THEN "invalid"
         ELSE IF out_mode # "progressive" THEN "interlace" ELSE "half"
    ELSE IF 2 * in_fps = out_fps
    THEN IF out_mode # "progressive" THEN "invalid"
         ELSE IF in_mode # "progressive" THEN "deinterlace_bob"
         ELSE "duplicate"
    ELSE "invalid"

\* filter_->is_frame_format_changed(video_frame)
is_frame_format_changed(filter, frame) ==
    filter.width # frame.width \/ filter.height # frame.height

\* update_display_mode(frame, force_deinterlace): the display mode and the
\* filter it leaves
update_display_mode(frame, force_deinterlace, in_fps, format_desc) ==
    LET mode0 == get_mode(frame)
        mode == IF mode0 = "progressive" /\ frame.height < 720 /\ in_fps < 50
                THEN "upper" ELSE mode0
        dm0 == get_display_mode(mode, in_fps, format_desc.field_mode,
                                format_desc.fps)
        dm1 == IF /\ (frame.height # 480 \/ format_desc.height # 486)
                  /\ dm0 = "simple"
                  /\ mode # "progressive"
                  /\ format_desc.field_mode # "progressive"
                  /\ frame.height # format_desc.height
                  /\ ~(frame.width = 720 /\ frame.height = 608
                        /\ format_desc.height = 576)
               THEN "scale_interlaced" ELSE dm0
        dm2 == IF /\ force_deinterlace
                  /\ frame.field # "progressive"
                  /\ dm1 \notin {"deinterlace_bob", "deinterlace"}
               THEN "scale_interlaced" ELSE dm1
        filter_str ==
            CASE dm2 = "deinterlace" -> <<"YADIF=0:-1">>
              [] dm2 = "deinterlace_bob" -> <<"YADIF=1:-1">>
              [] dm2 = "scale_interlaced" -> <<"SCALE">>
              [] OTHER -> <<>>
    IN  [display_mode |-> IF dm2 = "invalid" THEN "simple" ELSE dm2,
         filter |-> [width |-> frame.width, height |-> frame.height,
                     filtergraph |-> filter_str]]

\* no filter has been built
NoFilter == [width |-> 0, height |-> 0, filtergraph |-> <<"none">>]

\* filter::fast_path
fast_path(filter) == filter.filtergraph = <<>>

\* number of frames filter_->poll_all() returns after one push: the frame
\* itself on the fast path, whatever the filter graph has ready otherwise
poll_all(filter) == IF fast_path(filter) THEN {1} ELSE {0, 1, 2}

\* frames n+1 .. n+k queued on sub-queue sub
NewFrames(n, k, sub) == [i \in 1..k |-> WriteFrame(n + i, sub)]

Back(streams) == streams[Len(streams)]

PushBack(streams, q) == [streams EXCEPT ![Len(streams)] = q]

video_overflow_never(size) == FALSE

\* video_streams_.back().size() > 32
video_overflow(size) == size > VideoStreamLimit

\* audio_streams_.back().size() > 32*audio_cadence_.front()*num_channels
audio_overflow(size, cadence, channels) ==
    size > AudioStreamLimit * cadence[1] * channels

\* video_ready2() on given streams
video_ready2_of(streams, mode) ==
    IF mode \in {"interlace", "half"}
    THEN Len(streams[1]) >= 2
    ELSE Len(streams[1]) >= 1

\* audio_ready2() on given streams
audio_ready2_of(streams, mode, cadence, channels) ==
    IF mode = "duplicate"
    THEN streams[1] \div 2 >= cadence[1] * channels
    ELSE streams[1] >= cadence[1] * channels

video_ready2 == video_ready2_of(video_streams_, display_mode_)

audio_ready2 ==
    audio_ready2_of(audio_streams_, display_mode_, audio_cadence_,
                    audio_channel_layout_)

video_ready ==
    \/ Len(video_streams_) > 1
    \/ Len(video_streams_) >= Len(audio_streams_) /\ video_ready2

audio_ready ==
    \/ Len(audio_streams_) > 1
    \/ Len(audio_streams_) >= Len(video_streams_) /\ audio_ready2

truncate_video_only(video, audio, mode, cadence, channels) ==
    IF /\ Len(video) > 1
       /\ Len(audio) > 1
       /\ \/ ~video_ready2_of(video, mode)
          \/ ~audio_ready2_of(audio, mode, cadence, channels)
    THEN [video |-> Tail(video), audio |-> audio]
    ELSE [video |-> video, audio |-> audio]

\* the first step of poll on an empty frame buffer: drop the front
\* sub-queues when later ones exist and the front ones cannot emit
truncate(video, audio, mode, cadence, channels) ==
    IF /\ Len(video) > 1
       /\ Len(audio) > 1
       /\ \/ ~video_ready2_of(video, mode)
          \/ ~audio_ready2_of(audio, mode, cadence, channels)
    THEN [video |-> Tail(video), audio |-> Tail(audio)]
    ELSE [video |-> video, audio |-> audio]

\* pop_video(): the frame and the streams left; reading an empty
\* sub-queue is undefined
pop_video(video) ==
    IF video[1] # <<>>
    THEN {[frame |-> Head(video[1]),
           video |-> [video EXCEPT ![1] = Tail(@)],
           undefined |-> "none"]}
    ELSE {[frame |-> GarbageFrame, video |-> video, undefined |-> u]
            : u \in UndefinedOutcomes}

\* pop_audio(): the slice taken, the streams left and the cadence rotated;
\* a slice past the end of the sub-queue is undefined
pop_audio(audio, cadence, channels, at) ==
    LET n == cadence[1] * channels
    IN  IF audio[1] >= n
        THEN {[samples |-> [at |-> at, n |-> n],
               audio |-> [audio EXCEPT ![1] = @ - n],
               cadence |-> rotate_left(cadence),
               undefined |-> "none"]}
        ELSE {[samples |-> [at |-> at, n |-> n],
               audio |-> [audio EXCEPT ![1] = 0],
               cadence |-> rotate_left(cadence),
               undefined |-> u]
                : u \in UndefinedOutcomes}

\* number of pop_video calls poll makes in a display mode
video_pops_one(mode) == 1

video_pops(mode) ==
    IF mode \in {"interlace", "scale_interlaced", "half"} THEN 2 ELSE 1

\* number of pop_audio calls poll makes in a display mode
audio_pops(mode) == IF mode = "duplicate" THEN 2 ELSE 1

\* core::basic_frame::interlace(frame1, frame2, mode)
interlace(frame1, frame2, mode) ==
    [kind |-> "interlaced", first |-> frame1, second |-> frame2,
     field_mode |-> mode]

\* the switch of poll: the frames put on the frame buffer, from frame1
\* (with its audio), the second frame popped and the second slice popped
compose_frames_single(mode, frame1, frame2, samples2, field_mode) ==
    <<frame1>>

compose_frames_swapped(mode, frame1, frame2, samples2, field_mode) ==
    CASE mode \in {"interlace", "scale_interlaced"} ->
            <<interlace(frame2, frame1, field_mode)>>
      [] mode = "duplicate" ->
            <<frame1, [frame1 EXCEPT !.audio = samples2]>>
      [] OTHER -> <<frame1>>

compose_frames(mode, frame1, frame2, samples2, field_mode) ==
    CASE mode \in {"interlace", "scale_interlaced"} ->
            <<interlace(frame1, frame2, field_mode)>>
      [] mode = "duplicate" ->
            <<frame1, [frame1 EXCEPT !.audio = samples2]>>
      [] OTHER -> <<frame1>>

\* the worse of two outcomes of undefined behaviour
Worse(u, v) ==
    IF "crash" \in {u, v} THEN "crash"
    ELSE IF "garbage" \in {u, v} THEN "garbage" ELSE "none"

\* poll() on an empty frame buffer with both streams ready: the pops and
\* the frames composed
poll_compose(video, audio, mode, cadence, channels, at, field_mode) ==
    UNION { UNION { UNION {
        {[video |-> v2.video, audio |-> a2.audio, cadence |-> a2.cadence,
          popped |-> a2.samples.at + a2.samples.n,
          undefined |-> Worse(Worse(v1.undefined, a1.undefined),
                               Worse(v2.undefined, a2.undefined)),
          frames |-> compose_frames(mode,
                        [v1.frame EXCEPT !.audio = a1.samples],
                        v2.frame, a2.samples, field_mode)]
            : a2 \in IF audio_pops(mode) = 2
                     THEN pop_audio(a1.audio, a1.cadence, channels,
                                    a1.samples.at + a1.samples.n)
                     ELSE {[samples |-> [at |-> a1.samples.at
                                                + a1.samples.n, n |-> 0],
                            audio |-> a1.audio, cadence |-> a1.cadence,
                            undefined |-> "none"]} }
            : v2 \in IF video_pops(mode) = 2
                     THEN pop_video(v1.video)
                     ELSE {[frame |-> v1.frame, video |-> v1.video,
                            undefined |-> "none"]} }
            : a1 \in pop_audio(audio, cadence, channels, at) }
        : v1 \in pop_video(video) }

\* configuration.auto-deinterlace, at its default
auto_deinterlace_ == TRUE

\* outcome of a muxer call: whether it threw and, for poll, whether
\* video_ready() and audio_ready() held with a display mode set when it
\* was called, and whether it returned a frame, null, or not at all; for a
\* video push, whether the filter constructor failed
Called(op, threw, ready, result) ==
    [op |-> op, threw |-> threw, ready |-> ready, result |-> result]

Count(kind) == [m_count EXCEPT ![kind] = @ + 1]

Within(kind) == undefined # "crash" /\ m_count[kind] < m_budget[kind]

muxerConfig == <<in_fps_, format_desc_, audio_channel_layout_, m_budget>>

\* new filter(...): the constructor returns, or one of its FF(...) calls
\* or configure_filtergraph throws
FilterConstructions == {"configured", "failed"}

\* push(video_frame, hints, timecode) with a decoded frame
PushVideoFrame ==
    /\ undefined # "crash"
    /\ nqueued < m_budget.video
    /\ \E source \in Sources, constructed \in FilterConstructions :
        LET frame == source.frame
            deinterlace_hint == source.deinterlace_hint
            changed == source_ # NoSource /\ source # source_
            mode1 == IF filter_ = NoFilter
                        \/ is_frame_format_changed(filter_, frame)
                     THEN "invalid" ELSE display_mode_
            force == IF auto_deinterlace_
                        /\ force_deinterlacing_ # deinterlace_hint
                     THEN deinterlace_hint ELSE force_deinterlacing_
            mode2 == IF force # force_deinterlacing_
                     THEN "invalid" ELSE mode1
            updated == update_display_mode(frame, force, in_fps_,
                                           format_desc_)
            update == filter_ = NoFilter \/ mode2 = "invalid"
            filter == IF update THEN updated.filter ELSE filter_
            fails == update /\ constructed = "failed"
            counted == IF changed THEN Count("change") ELSE m_count
        IN  /\ changed => m_count.change < m_budget.change
            /\ ~update => constructed = "configured"
            /\ fails => m_count.config_failure < m_budget.config_failure
            /\ m_count' = IF fails
                          THEN [counted EXCEPT !.config_failure = @ + 1]
                          ELSE counted
            /\ source_' = source
            /\ force_deinterlacing_' = force
            /\ display_mode_' =
                    IF update THEN updated.display_mode ELSE mode2
            /\ IF fails
               THEN \* update_display_mode has set display_mode_; the
                    \* exception leaves filter_ as it was and leaves push
                    /\ m_last' = Called("push_video", TRUE, FALSE,
                                        "filter_failed")
                    /\ disturbed' = TRUE
                    /\ UNCHANGED <<filter_, video_streams_, nqueued>>
               ELSE /\ filter_' = filter
                    /\ \E k \in poll_all(filter) :
                        LET back == Back(video_streams_)
                                        \o NewFrames(nqueued, k, nsegments)
                        IN  /\ video_streams_' =
                                    PushBack(video_streams_, back)
                            /\ nqueued' = nqueued + k
                            /\ m_last' = Called("push_video",
                                            video_overflow(Len(back)),
                                            FALSE, "none")
                            /\ disturbed' = (disturbed \/ changed
                                            \/ video_overflow(Len(back)))
    /\ UNCHANGED <<muxerConfig, audio_streams_, frame_buffer_,
                   audio_cadence_, emitted, nsegments, apopped, undefined>>
    /\ UNCHANGED <<deviceVars, transitionVars, consumerVars, decoderVars>>

\* push(video_frame, hints, timecode) with the empty_video sentinel
PushEmptyVideo ==
    /\ Within("empty")
    /\ nqueued < m_budget.video
    /\ m_count' = Count("empty")
    /\ LET back == Append(Back(video_streams_),
                          WriteFrame(nqueued + 1, nsegments))
       IN   /\ video_streams_' = PushBack(video_streams_, back)
            /\ m_last' = Called("push_empty_video",
                                video_overflow(Len(back)), FALSE, "none")
    /\ nqueued' = nqueued + 1
    /\ display_mode_' = "simple"
    /\ disturbed' = TRUE
    /\ UNCHANGED <<muxerConfig, audio_streams_, frame_buffer_,
                   audio_cadence_, filter_, force_deinterlacing_, emitted,
                   nsegments, apopped, undefined, source_>>
    /\ UNCHANGED <<deviceVars, transitionVars, consumerVars, decoderVars>>

\* push(video_frame, hints, timecode) with the flush_video sentinel
PushFlushVideo ==
    /\ Within("flush_video")
    /\ m_count' = Count("flush_video")
    /\ display_mode_' = IF filter_ = NoFilter THEN "invalid" ELSE display_mode_
    /\ video_streams_' = Append(video_streams_, <<>>)
    /\ nsegments' = nsegments + 1
    /\ m_last' = Called("push_flush_video", video_overflow(0), FALSE,
                        "none")
    /\ disturbed' = TRUE
    /\ UNCHANGED <<muxerConfig, audio_streams_, frame_buffer_,
                   audio_cadence_, filter_, force_deinterlacing_, emitted,
                   nqueued, apopped, undefined, source_>>
    /\ UNCHANGED <<deviceVars, transitionVars, consumerVars, decoderVars>>

\* the tail of push(audio), were it to reset the display mode
AudioPushed_resetting(streams, sentinel) ==
    /\ audio_streams_' = streams
    /\ m_last' = Called("push_audio",
                        audio_overflow(Back(streams), audio_cadence_,
                                       audio_channel_layout_),
                        FALSE, "none")
    /\ disturbed' = (disturbed \/ sentinel
                        \/ audio_overflow(Back(streams), audio_cadence_,
                                          audio_channel_layout_))
    /\ display_mode_' = "invalid"
    /\ UNCHANGED <<muxerConfig, video_streams_, frame_buffer_,
                   audio_cadence_, filter_,
                   force_deinterlacing_, emitted, nqueued, nsegments,
                   apopped, undefined, source_>>
    /\ UNCHANGED <<deviceVars, transitionVars, consumerVars, decoderVars>>

\* the tail of push(audio): the overflow test on the back sub-queue
AudioPushed(streams, sentinel) ==
    /\ audio_streams_' = streams
    /\ m_last' = Called("push_audio",
                        audio_overflow(Back(streams), audio_cadence_,
                                       audio_channel_layout_),
                        FALSE, "none")
    /\ disturbed' = (disturbed \/ sentinel
                        \/ audio_overflow(Back(streams), audio_cadence_,
                                          audio_channel_layout_))
    /\ UNCHANGED <<muxerConfig, video_streams_, frame_buffer_,
                   display_mode_, audio_cadence_, filter_,
                   force_deinterlacing_, emitted, nqueued, nsegments,
                   apopped, undefined, source_>>
    /\ UNCHANGED <<deviceVars, transitionVars, consumerVars, decoderVars>>

\* push(audio) with a decoded block of samples
PushAudioBlock ==
    /\ Within("audio")
    /\ m_count' = Count("audio")
    /\ \E b \in AudioBlocks :
        AudioPushed(PushBack(audio_streams_,
                        Back(audio_streams_) + b * audio_channel_layout_),
                    FALSE)

\* push(audio) with the empty_audio sentinel
PushEmptyAudio ==
    /\ Within("empty")
    /\ m_count' = Count("empty")
    /\ AudioPushed(PushBack(audio_streams_,
                        Back(audio_streams_)
                            + audio_cadence_[1] * audio_channel_layout_),
                   TRUE)

\* push(audio) with the flush_audio sentinel
PushFlushAudio ==
    /\ Within("flush_audio")
    /\ m_count' = Count("flush_audio")
    /\ AudioPushed(Append(audio_streams_, 0), TRUE)

\* a frame on the frame buffer, with the display mode it was composed in
Composed_in(mode, composed) ==
    [i \in 1..Len(composed) |-> [mode |-> mode, frame |-> composed[i]]]

\* poll()
Poll ==
    /\ undefined # "crash"
    /\ LET ready == video_ready /\ audio_ready /\ display_mode_ # "invalid"
       IN
       IF frame_buffer_ # <<>>
       THEN /\ frame_buffer_' = Tail(frame_buffer_)
            /\ emitted' = Append(emitted, Head(frame_buffer_))
            /\ m_last' = Called("poll", FALSE, ready, "frame")
            /\ UNCHANGED <<video_streams_, audio_streams_, audio_cadence_,
                           apopped, undefined>>
       ELSE LET t == truncate(video_streams_, audio_streams_,
                              display_mode_, audio_cadence_,
                              audio_channel_layout_)
            IN  IF \/ ~video_ready2_of(t.video, display_mode_)
                   \/ ~audio_ready2_of(t.audio, display_mode_,
                                       audio_cadence_,
                                       audio_channel_layout_)
                   \/ display_mode_ = "invalid"
                THEN /\ video_streams_' = t.video
                     /\ audio_streams_' = t.audio
                     /\ m_last' = Called("poll", FALSE, ready, "null")
                     /\ UNCHANGED <<frame_buffer_, emitted, audio_cadence_,
                                    apopped, undefined>>
                ELSE \E o \in poll_compose(t.video, t.audio, display_mode_,
                                audio_cadence_, audio_channel_layout_,
                                apopped, format_desc_.field_mode) :
                        IF o.undefined = "crash"
                        THEN /\ undefined' = "crash"
                             /\ m_last' = Called("poll", FALSE, ready,
                                                 "crash")
                             /\ UNCHANGED <<video_streams_, audio_streams_,
                                            frame_buffer_, emitted,
                                            audio_cadence_, apopped>>
                        ELSE LET buffer ==
                                    Composed_in(display_mode_, o.frames)
                             IN /\ video_streams_' = o.video
                                /\ audio_streams_' = o.audio
                                /\ audio_cadence_' = o.cadence
                                /\ apopped' = o.popped
                                /\ undefined' = Worse(undefined,
                                                      o.undefined)
                                /\ frame_buffer_' = Tail(buffer)
                                /\ emitted' = Append(emitted, Head(buffer))
                                /\ m_last' = Called("poll", FALSE, ready,
                                                    "frame")
    /\ UNCHANGED <<muxerConfig, display_mode_, filter_,
                   force_deinterlacing_, nqueued, nsegments, disturbed,
                   m_count, source_>>
    /\ UNCHANGED <<deviceVars, transitionVars, consumerVars, decoderVars>>

MuxerClear_emptied ==
    /\ Within("clear")
    /\ m_count' = Count("clear")
    /\ video_streams_' = <<>>
    /\ audio_streams_' = <<>>
    /\ frame_buffer_' = <<>>
    /\ nsegments' = nsegments + 1
    /\ m_last' = Called("clear", FALSE, FALSE, "none")
    /\ disturbed' = TRUE
    /\ UNCHANGED <<muxerConfig, display_mode_, audio_cadence_, filter_,
                   force_deinterlacing_, emitted, nqueued, apopped,
                   undefined, source_>>
    /\ UNCHANGED <<deviceVars, transitionVars, consumerVars, decoderVars>>

\* clear()
MuxerClear ==
    /\ Within("clear")
    /\ m_count' = Count("clear")
    /\ video_streams_' = <<<<>>>>
    /\ audio_streams_' = <<0>>
    /\ frame_buffer_' = <<>>
    /\ nsegments' = nsegments + 1
    /\ m_last' = Called("clear", FALSE, FALSE, "none")
    /\ disturbed' = TRUE
    /\ UNCHANGED <<muxerConfig, display_mode_, audio_cadence_, filter_,
                   force_deinterlacing_, emitted, nqueued, apopped,
                   undefined, source_>>
    /\ UNCHANGED <<deviceVars, transitionVars, consumerVars, decoderVars>>

\* calls followed on a muxer that is pushed and polled: a steady stream,
\* a stream with flush and empty sentinels, a stream that is cleared or
\* changes its format, and a stream whose filter fails to configure
MuxerBudgets ==
    {[NoBudget EXCEPT !.video = MaxVideo, !.audio = MaxAudio],
     [NoBudget EXCEPT !.video = MaxVideoDisturbed, !.audio = MaxAudio,
                      !.flush_video = MaxFlush, !.flush_audio = MaxFlush,
                      !.empty = MaxEmpty],
     [NoBudget EXCEPT !.video = MaxVideoDisturbed, !.audio = MaxAudio,
                      !.clear = MaxClear, !.change = MaxChanges],
     [NoBudget EXCEPT !.video = MaxVideoDisturbed, !.audio = MaxAudio,
                      !.change = MaxChanges,
                      !.config_failure = MaxConfigFailures]}

\* calls followed on a muxer that is pushed on one stream and not polled
OverflowBudgets ==
    {[NoBudget EXCEPT !.video = VideoStreamLimit + 2, !.audio = 1],
     [NoBudget EXCEPT !.audio = AudioStreamLimit + 2, !.video = 1]}

\* frame_muxer::implementation constructor
MuxerConstructed ==
    /\ in_fps_ \in SourceFps
    /\ format_desc_ \in TargetFormats
    /\ audio_channel_layout_ \in ChannelCounts
    /\ video_streams_ = <<<<>>>>
    /\ audio_streams_ = <<0>>
    /\ frame_buffer_ = <<>>
    /\ display_mode_ = "invalid"
    /\ audio_cadence_ = rotate_right(format_desc_.audio_cadence)
    /\ filter_ = NoFilter
    /\ force_deinterlacing_ = FALSE
    /\ source_ = NoSource
    /\ emitted = <<>>
    /\ m_last = NoCall
    /\ m_count = NoBudget
    /\ nqueued = 0
    /\ nsegments = 1
    /\ apopped = 0
    /\ disturbed = FALSE
    /\ undefined = "none"

MuxerInit ==
    /\ DeviceInit
    /\ TransitionIdle
    /\ ConsumerIdle
    /\ DecoderIdle
    /\ MuxerConstructed
    /\ m_budget \in MuxerBudgets

MuxerNext ==
    \/ PushVideoFrame
    \/ PushEmptyVideo
    \/ PushFlushVideo
    \/ PushAudioBlock
    \/ PushEmptyAudio
    \/ PushFlushAudio
    \/ Poll
    \/ MuxerClear

MuxerSpec == MuxerInit /\ [][MuxerNext]_vars

MuxerOverflowInit ==
    /\ DeviceInit
    /\ TransitionIdle
    /\ ConsumerIdle
    /\ DecoderIdle
    /\ MuxerConstructed
    /\ m_budget \in OverflowBudgets

MuxerOverflowNext == PushVideoFrame \/ PushAudioBlock \/ Poll

MuxerOverflowSpec == MuxerOverflowInit /\ [][MuxerOverflowNext]_vars

\* ------------------------------------------------------------------------
\* Consumers: the file consumer (ffmpeg_consumer behind its proxy) and the
\* network consumer (ndi_consumer)
\* ------------------------------------------------------------------------
\* encode_executor_.set_capacity(8)
EncodeCapacity == 8

\* executor_.set_capacity(8) of the ndi consumer
NdiCapacity == 8

\* index_(100000 + crc16(...))
FileBaseIndex == 100000

\* base offset of the ndi consumer's index
NDI_CONSUMER_BASE_INDEX == 900

\* boost::crc_16_type: polynomial 0x8005 processed least significant bit
\* first (0xA001), initial remainder 0, no final xor
CrcPolynomial == 40961

\* number of values of a byte
ByteValues == 256

\* characters of the configured names: "A", "a", "b"
NameChars == {65, 97, 98}

Names == UNION {[1..n -> NameChars] : n \in 1..MaxNameLen}

DefaultName == <<97>>

\* bitwise exclusive or of two naturals
RECURSIVE BitXor(_, _)
BitXor(a, b) ==
    IF a = 0 THEN b
    ELSE IF b = 0 THEN a
    ELSE ((a + b) % 2) + 2 * BitXor(a \div 2, b \div 2)

\* n shift-and-reduce steps of the checksum register
RECURSIVE crc_shift(_, _)
crc_shift(rem, n) ==
    IF n = 0 THEN rem
    ELSE crc_shift(IF rem % 2 = 1
                   THEN BitXor(rem \div 2, CrcPolynomial)
                   ELSE rem \div 2,
                   n - 1)

\* result.process_bytes(data, n) on the register rem
RECURSIVE process_bytes(_, _)
process_bytes(rem, bytes) ==
    IF bytes = <<>> THEN rem
    ELSE process_bytes(crc_shift(BitXor(rem, Head(bytes)), 8), Tail(bytes))

\* the bytes of a std::wstring of 16-bit characters, low byte first
RECURSIVE wide_bytes(_)
wide_bytes(str) ==
    IF str = <<>> THEN <<>>
    ELSE <<Head(str) % ByteValues, Head(str) \div ByteValues>>
            \o wide_bytes(Tail(str))

\* crc16(const std::wstring&) of the file consumer: str.length() bytes from
\* str.data()
crc16(str) == process_bytes(0, SubSeq(wide_bytes(str), 1, Len(str)))

\* crc16(const std::string&) of the ndi consumer
ndi_crc16(str) == process_bytes(0, str)

\* boost::to_lower_copy
to_lower_copy(str) ==
    [i \in DOMAIN str |-> IF str[i] \in 65..90 THEN str[i] + 32 ELSE str[i]]

proxy_index_raw(filename) == FileBaseIndex + crc16(filename)

\* index_ of ffmpeg_consumer_proxy
proxy_index(filename) == FileBaseIndex + crc16(to_lower_copy(filename))

\* index_ of ndi_consumer
ndi_index(ndi_name) == NDI_CONSUMER_BASE_INDEX + ndi_crc16(ndi_name)

\* the ffmpeg_consumers of the proxy: consumer_ and key_only_consumer_
Instances == IF separate_key_ THEN {"fill", "key"} ELSE {"fill"}

\* an executor as constructed, with its capacity set
NewExecutor(capacity) ==
    [size |-> 0, busy |-> FALSE, thread |-> "running", capacity |-> capacity]

\* what a push on a full executor queue does
FullQueueOutcomes == {"wait", "enqueue"}

\* executor::begin_invoke on executors with a capacity: what the push does
begin_invoke_bounded(executors) ==
    IF \A e \in executors : e.size < e.capacity
    THEN {"enqueue"} ELSE FullQueueOutcomes

Enqueued(e) == [e EXCEPT !.size = @ + 1]

ready_for_frame_inclusive(i) ==
    ready_[i] /\ encode_executor_[i].size <= encode_executor_[i].capacity

\* ffmpeg_consumer::ready_for_frame
ready_for_frame(i) ==
    ready_[i] /\ encode_executor_[i].size < encode_executor_[i].capacity

\* a queue is at capacity
AtCapacity(e) == e.size >= e.capacity

Sent(full, enqueued, waited, dropped, immediate) ==
    [full |-> full, enqueued |-> enqueued, waited |-> waited,
     dropped |-> dropped, immediate |-> immediate]

consumerConfig == <<c_type, c_name, separate_key_, recorder_, index_,
                    c_budget, codec_delay, sink>>

teardownVars == <<c_pc, tearing, d_pc, flush_, c_log>>

\* ffmpeg_consumer_proxy::initialize: constructs the ffmpeg_consumers, or
\* a constructor throws
FileInitialize ==
    /\ c_type = "file"
    /\ c_pc = "constructed"
    /\ \E built \in {"ok", "throw"} :
        IF built = "ok"
        THEN /\ c_pc' = "alive"
             /\ ready_' = [i \in Instances |-> TRUE]
             /\ encode_executor_' =
                    [i \in Instances |-> NewExecutor(EncodeCapacity)]
             /\ held' = [i \in Instances |-> NoPackets]
             /\ c_log' = [i \in Instances |-> <<>>]
        ELSE /\ c_pc' = "failed"
             /\ UNCHANGED <<ready_, encode_executor_, held, c_log>>
    /\ UNCHANGED <<consumerConfig, ndi_executor_, dispatcher, c_last, nsent,
                   tearing, d_pc, flush_>>
    /\ UNCHANGED <<deviceVars, transitionVars, muxerVars, decoderVars>>

\* ndi_consumer::initialize
NdiInitialize ==
    /\ c_type = "ndi"
    /\ c_pc = "constructed"
    /\ c_pc' = "alive"
    /\ UNCHANGED <<consumerConfig, ready_, encode_executor_, ndi_executor_,
                   dispatcher, c_last, nsent, held, tearing, d_pc, flush_,
                   c_log>>
    /\ UNCHANGED <<deviceVars, transitionVars, muxerVars, decoderVars>>

\* std::numeric_limits<int>().max(): no timecode on the frame, or none
\* from the recorder
NoTimecode == 2147483647

\* tc_in_ and tc_out_ of a proxy made for a recorder
TcIn == 1

TcOut == 3

\* timecodes a frame or the recorder can carry
Timecodes == 0..TcOut \cup {NoTimecode}

\* the timecode send goes by: the frame's, and the recorder's when the
\* frame has none
effective_timecode(frame_timecode, recorder_timecode) ==
    IF frame_timecode = NoTimecode THEN recorder_timecode
    ELSE frame_timecode

in_window_closed(timecode) ==
    \/ timecode = NoTimecode
    \/ timecode >= TcIn /\ timecode <= TcOut

\* timecode == max || (timecode >= tc_in_ && timecode < tc_out_)
in_window(timecode) ==
    \/ timecode = NoTimecode
    \/ timecode >= TcIn /\ timecode < TcOut

\* ready_for_frame of send: consumer_ is ready and, with separate_key_,
\* key_only_consumer_ is too
proxy_ready == \A i \in Instances : ready_for_frame(i)

sends_to_own_ready(i, recorded) == ready_for_frame(i) /\ recorded

\* consumer_->send(frame) and key_only_consumer_->send(frame) are reached
sends_to(i, recorded) == proxy_ready /\ recorded

\* consumer_->mark_dropped() and key_only_consumer_->mark_dropped() are
\* reached
marks_dropped(i) == ~proxy_ready

\* outcome of a send to the file consumer: the ffmpeg_consumers the frame
\* was queued on, those that marked it dropped, and the timecode the
\* window test went by
FileSent(full, to, marked, timecode, waited) ==
    [full |-> full, enqueued |-> to # {} /\ ~waited, waited |-> waited,
     dropped |-> marked # {}, immediate |-> ~waited, to |-> to,
     marked |-> marked, timecode |-> timecode]

\* ffmpeg_consumer_proxy::send
FileSend ==
    /\ c_type = "file"
    /\ c_pc = "alive"
    /\ dispatcher = "idle"
    /\ nsent < c_budget
    /\ nsent' = nsent + 1
    /\ \E frame_timecode \in Timecodes, recorder_timecode \in Timecodes :
        LET timecode == IF recorder_
                        THEN effective_timecode(frame_timecode,
                                                recorder_timecode)
                        ELSE NoTimecode
            recorded == ~recorder_ \/ in_window(timecode)
            to == {i \in Instances : sends_to(i, recorded)}
            marked == {i \in Instances : marks_dropped(i)}
            full == \E i \in Instances : AtCapacity(encode_executor_[i])
        IN  \E pushed \in begin_invoke_bounded(
                            {encode_executor_[i] : i \in to}) :
                IF pushed = "enqueue"
                THEN /\ encode_executor_' =
                            [i \in Instances |->
                                IF i \in to
                                THEN Enqueued(encode_executor_[i])
                                ELSE encode_executor_[i]]
                     /\ c_last' = FileSent(full, to, marked, timecode,
                                           FALSE)
                     /\ UNCHANGED dispatcher
                ELSE /\ dispatcher' = "waiting"
                     /\ c_last' = FileSent(full, to, marked, timecode,
                                           TRUE)
                     /\ UNCHANGED encode_executor_
    /\ UNCHANGED <<consumerConfig, ready_, ndi_executor_, held,
                   teardownVars>>
    /\ UNCHANGED <<deviceVars, transitionVars, muxerVars, decoderVars>>

\* ndi_consumer::send: return executor_.begin_invoke(...)
NdiSend ==
    /\ c_type = "ndi"
    /\ c_pc = "alive"
    /\ dispatcher = "idle"
    /\ nsent < c_budget
    /\ nsent' = nsent + 1
    /\ \E pushed \in begin_invoke_bounded({ndi_executor_}) :
        IF pushed = "enqueue"
        THEN /\ ndi_executor_' = Enqueued(ndi_executor_)
             /\ c_last' = Sent(AtCapacity(ndi_executor_), TRUE, FALSE,
                               FALSE, FALSE)
             /\ UNCHANGED dispatcher
        ELSE /\ dispatcher' = "waiting"
             /\ c_last' = Sent(AtCapacity(ndi_executor_), FALSE, TRUE,
                               FALSE, FALSE)
             /\ UNCHANGED ndi_executor_
    /\ UNCHANGED <<consumerConfig, ready_, encode_executor_, held,
                   teardownVars>>
    /\ UNCHANGED <<deviceVars, transitionVars, muxerVars, decoderVars>>

\* a push that waited on a full queue goes through once there is room
DispatcherResume ==
    /\ dispatcher = "waiting"
    /\ dispatcher' = "idle"
    /\ c_last' = [c_last EXCEPT !.enqueued = TRUE]
    /\ IF c_type = "ndi"
       THEN /\ ~AtCapacity(ndi_executor_)
            /\ ndi_executor_' = Enqueued(ndi_executor_)
            /\ UNCHANGED encode_executor_
       ELSE /\ \A i \in c_last.to : ~AtCapacity(encode_executor_[i])
            /\ encode_executor_' =
                    [i \in Instances |->
                        IF i \in c_last.to
                        THEN Enqueued(encode_executor_[i])
                        ELSE encode_executor_[i]]
            /\ UNCHANGED ndi_executor_
    /\ UNCHANGED <<consumerConfig, ready_, nsent, held, teardownVars>>
    /\ UNCHANGED <<deviceVars, transitionVars, muxerVars, decoderVars>>

\* the worker of an executor takes the task at the head of its queue
Started(e) == [e EXCEPT !.size = @ - 1, !.busy = TRUE]

CanStart(e) == e.thread \in {"running", "stopped"} /\ ~e.busy /\ e.size > 0

\* the encode thread starts the lambda queued by ffmpeg_consumer::send
EncodeTaskStart ==
    /\ c_type = "file"
    /\ \E i \in DOMAIN encode_executor_ :
        /\ CanStart(encode_executor_[i])
        /\ encode_executor_' =
                [encode_executor_ EXCEPT ![i] = Started(@)]
    /\ UNCHANGED <<consumerConfig, ready_, ndi_executor_, dispatcher, c_last,
                   nsent, held, teardownVars>>
    /\ UNCHANGED <<deviceVars, transitionVars, muxerVars, decoderVars>>

\* an encoder with codec delay holds a packet back
Delayed(i, packets) ==
    [s \in {"audio", "video"} |->
        IF codec_delay[s] /\ (s = "video" \/ i = "fill")
                /\ packets[s] < MaxDelayed
        THEN packets[s] + 1 ELSE packets[s]]

\* encode_video_frame and encode_audio_frame return
EncodeTaskFinish ==
    /\ c_type = "file"
    /\ sink # "hanging"
    /\ \E i \in DOMAIN encode_executor_ :
        /\ encode_executor_[i].busy
        /\ encode_executor_' = [encode_executor_ EXCEPT ![i].busy = FALSE]
        /\ held' = [held EXCEPT ![i] = Delayed(i, @)]
    /\ UNCHANGED <<consumerConfig, ready_, ndi_executor_, dispatcher, c_last,
                   nsent, teardownVars>>
    /\ UNCHANGED <<deviceVars, transitionVars, muxerVars, decoderVars>>

\* the ndi executor starts the lambda queued by send
NdiTaskStart ==
    /\ c_type = "ndi"
    /\ CanStart(ndi_executor_)
    /\ ndi_executor_' = Started(ndi_executor_)
    /\ UNCHANGED <<consumerConfig, ready_, encode_executor_, dispatcher,
                   c_last, nsent, held, teardownVars>>
    /\ UNCHANGED <<deviceVars, transitionVars, muxerVars, decoderVars>>

\* NDIlib_send_send_video returns
NdiTaskFinish ==
    /\ c_type = "ndi"
    /\ ndi_executor_.busy
    /\ ndi_executor_' = [ndi_executor_ EXCEPT !.busy = FALSE]
    /\ UNCHANGED <<consumerConfig, ready_, encode_executor_, dispatcher,
                   c_last, nsent, held, teardownVars>>
    /\ UNCHANGED <<deviceVars, transitionVars, muxerVars, decoderVars>>

\* the proxy is destroyed: its members are, key_only_consumer_ first
ProxyDestroy ==
    /\ c_type = "file"
    /\ c_pc = "alive"
    /\ dispatcher = "idle"
    /\ c_pc' = "destroying"
    /\ tearing' = IF separate_key_ THEN "key" ELSE "fill"
    /\ d_pc' = "not_ready"
    /\ UNCHANGED <<consumerConfig, ready_, encode_executor_, ndi_executor_,
                   dispatcher, c_last, nsent, held, flush_, c_log>>
    /\ UNCHANGED <<deviceVars, transitionVars, muxerVars, decoderVars>>

\* the condition of ~ffmpeg_consumer for calling flush_encoders
need_flush_audio(i) == i # "key" /\ codec_delay.audio

need_flush_video(i) == codec_delay.video

need_flush(i) == need_flush_video(i) \/ need_flush_audio(i)

destructor_next_trailer_first(step, flush) ==
    CASE step = "not_ready" -> "stop"
      [] step = "stop" -> "join"
      [] step = "join" -> "trailer"
      [] step = "trailer" -> IF flush THEN "flush" ELSE "cleanup"
      [] step = "flush" -> "cleanup"
      [] OTHER -> "done"

\* ~ffmpeg_consumer: the statement that follows a statement
destructor_next(step, flush) ==
    CASE step = "not_ready" -> "stop"
      [] step = "stop" -> "join"
      [] step = "join" -> IF flush THEN "flush" ELSE "trailer"
      [] step = "flush" -> "trailer"
      [] step = "trailer" -> "cleanup"
      [] OTHER -> "done"

Logged(events) == [c_log EXCEPT ![tearing] = @ \o events]

Destroying(step) == c_pc = "destroying" /\ d_pc = step

\* ready_ = false
DtorNotReady ==
    /\ Destroying("not_ready")
    /\ ready_' = [ready_ EXCEPT ![tearing] = FALSE]
    /\ c_log' = Logged(<<"not_ready">>)
    /\ d_pc' = destructor_next(d_pc, need_flush(tearing))
    /\ UNCHANGED <<consumerConfig, encode_executor_, ndi_executor_,
                   dispatcher, c_last, nsent, held, c_pc, tearing, flush_>>
    /\ UNCHANGED <<deviceVars, transitionVars, muxerVars, decoderVars>>

\* encode_executor_.stop()
DtorStop ==
    /\ Destroying("stop")
    /\ encode_executor_' =
            [encode_executor_ EXCEPT ![tearing].thread = "stopped"]
    /\ c_log' = Logged(<<"stop">>)
    /\ d_pc' = destructor_next(d_pc, need_flush(tearing))
    /\ UNCHANGED <<consumerConfig, ready_, ndi_executor_, dispatcher, c_last,
                   nsent, held, c_pc, tearing, flush_>>
    /\ UNCHANGED <<deviceVars, transitionVars, muxerVars, decoderVars>>

\* encode_executor_.join() returns: the worker has left its last task
DtorJoin ==
    /\ Destroying("join")
    /\ ~encode_executor_[tearing].busy
    /\ encode_executor_' =
            [encode_executor_ EXCEPT ![tearing].thread = "joined"]
    /\ c_log' = Logged(<<"join">>)
    /\ d_pc' = destructor_next(d_pc, need_flush(tearing))
    /\ UNCHANGED <<consumerConfig, ready_, ndi_executor_, dispatcher, c_last,
                   nsent, held, c_pc, tearing, flush_>>
    /\ UNCHANGED <<deviceVars, transitionVars, muxerVars, decoderVars>>

\* flush_stream: true when the encoder returned no packet, false when it
\* returned one, which is written
flush_stream(packets) == IF sink = "endless" THEN FALSE ELSE packets = 0

\* packets an encoder holds after one flush_stream call
Flushed(packets) ==
    IF packets > 0 /\ sink # "endless" THEN packets - 1 ELSE packets

\* one iteration of the loop of flush_encoders
DtorFlush ==
    /\ Destroying("flush")
    /\ IF sink = "failing"
       THEN \* THROW_ON_ERROR2 in flush_stream: the exception leaves the
            \* destructor
            /\ c_pc' = "terminated"
            /\ d_pc' = "thrown"
            /\ UNCHANGED <<held, flush_, c_log>>
       ELSE LET h == held[tearing]
                audio_full ==
                    \/ flush_.audio_full
                    \/ ~need_flush_audio(tearing)
                    \/ flush_stream(h.audio)
                video_full ==
                    \/ flush_.video_full
                    \/ ~need_flush_video(tearing)
                    \/ flush_stream(h.video)
                left == [audio |-> IF need_flush_audio(tearing)
                                   THEN Flushed(h.audio) ELSE h.audio,
                         video |-> IF need_flush_video(tearing)
                                   THEN Flushed(h.video) ELSE h.video]
                written == (h.audio - left.audio) + (h.video - left.video)
            IN  /\ held' = [held EXCEPT ![tearing] = left]
                /\ IF audio_full /\ video_full
                   THEN /\ d_pc' = destructor_next(d_pc, TRUE)
                        /\ c_log' = Logged(<<"flush">>)
                        /\ flush_' = [audio_full |-> FALSE,
                                      video_full |-> FALSE,
                                      written |-> flush_.written + written]
                   ELSE /\ flush_' = [audio_full |-> audio_full,
                                      video_full |-> video_full,
                                      written |-> flush_.written + written]
                        /\ UNCHANGED <<d_pc, c_log>>
                /\ UNCHANGED c_pc
    /\ UNCHANGED <<consumerConfig, ready_, encode_executor_, ndi_executor_,
                   dispatcher, c_last, nsent, tearing>>
    /\ UNCHANGED <<deviceVars, transitionVars, muxerVars, decoderVars>>

\* av_write_trailer
DtorTrailer ==
    /\ Destroying("trailer")
    /\ c_log' = Logged(<<"trailer">>)
    /\ d_pc' = destructor_next(d_pc, need_flush(tearing))
    /\ UNCHANGED <<consumerConfig, ready_, encode_executor_, ndi_executor_,
                   dispatcher, c_last, nsent, held, c_pc, tearing, flush_>>
    /\ UNCHANGED <<deviceVars, transitionVars, muxerVars, decoderVars>>

\* cleanup(): avcodec_close on the streams, then avio_close; the proxy
\* then destroys consumer_, or is gone
DtorCleanup ==
    /\ Destroying("cleanup")
    /\ c_log' = Logged(<<"close_codecs", "close_stream">>)
    /\ IF tearing = "key"
       THEN /\ tearing' = "fill"
            /\ d_pc' = "not_ready"
            /\ UNCHANGED c_pc
       ELSE /\ c_pc' = "destroyed"
            /\ d_pc' = destructor_next(d_pc, need_flush(tearing))
            /\ UNCHANGED tearing
    /\ UNCHANGED <<consumerConfig, ready_, encode_executor_, ndi_executor_,
                   dispatcher, c_last, nsent, held, flush_>>
    /\ UNCHANGED <<deviceVars, transitionVars, muxerVars, decoderVars>>

\* how the codecs and the output behave: as they should, with an encode
\* call that never returns, with an encoder that returns a packet on every
\* flush call, or with a flush call that fails
SinkBehaviours == {"normal", "hanging", "endless", "failing"}

CodecDelays == [{"audio", "video"} -> BOOLEAN]

Config(type, name, key, recorder, delay, behaviour, budget) ==
    [type |-> type, name |-> name, separate_key |-> key,
     recorder |-> recorder, codec_delay |-> delay, sink |-> behaviour,
     budget |-> budget]

\* consumers followed: consumers of every name, consumers under load, and
\* file consumers of every codec and sink that are torn down
ConsumerConfigs ==
    {Config(t, n, FALSE, FALSE, NoDelay, "normal", MaxShortSends)
        : t \in {"file", "ndi"}, n \in Names}
    \cup {Config("file", DefaultName, k, r, NoDelay, "normal", MaxSends)
        : k \in BOOLEAN, r \in BOOLEAN}
    \cup {Config("ndi", DefaultName, FALSE, FALSE, NoDelay, "normal",
                 MaxSends)}
    \cup {Config("file", DefaultName, k, FALSE, d, b, MaxShortSends)
        : k \in BOOLEAN, d \in CodecDelays, b \in SinkBehaviours}

\* the consumer as constructed by create_consumer
ConsumerConstructed ==
    \E c \in ConsumerConfigs :
        /\ c_type = c.type
        /\ c_name = c.name
        /\ separate_key_ = c.separate_key
        /\ recorder_ = c.recorder
        /\ codec_delay = c.codec_delay
        /\ sink = c.sink
        /\ c_budget = c.budget
        /\ index_ = IF c.type = "file" THEN proxy_index(c.name)
                    ELSE ndi_index(c.name)
        /\ ndi_executor_ = IF c.type = "ndi" THEN NewExecutor(NdiCapacity)
                           ELSE NoExecutor
        /\ ready_ = EmptyMap
        /\ encode_executor_ = EmptyMap
        /\ held = EmptyMap
        /\ c_log = EmptyMap
        /\ dispatcher = "idle"
        /\ c_last = NoSend
        /\ nsent = 0
        /\ c_pc = "constructed"
        /\ tearing = "none"
        /\ d_pc = "none"
        /\ flush_ = NoFlush

ConsumerInit ==
    /\ DeviceInit
    /\ TransitionIdle
    /\ MuxerIdle
    /\ ConsumerConstructed
    /\ DecoderIdle

\* steps of the thread that calls send
DispatcherStep == FileSend \/ NdiSend \/ DispatcherResume

\* steps of the executors' workers
WorkerStep ==
    EncodeTaskStart \/ EncodeTaskFinish \/ NdiTaskStart \/ NdiTaskFinish

\* steps of the thread that owns the consumer
OwnerStep ==
    \/ FileInitialize
    \/ NdiInitialize
    \/ ProxyDestroy
    \/ DtorNotReady
    \/ DtorStop
    \/ DtorJoin
    \/ DtorFlush
    \/ DtorTrailer
    \/ DtorCleanup

ConsumerNext == DispatcherStep \/ WorkerStep \/ OwnerStep

ConsumerSpec == ConsumerInit /\ [][ConsumerNext]_vars

\* every thread that can take a step eventually takes one
ConsumerFairSpec ==
    /\ ConsumerSpec
    /\ WF_vars(WorkerStep)
    /\ WF_vars(OwnerStep)

\* ------------------------------------------------------------------------
\* Properties of the producer device
\* ------------------------------------------------------------------------
QueuedTicks == {i \in DOMAIN executor_ : executor_[i].op = "tick"}

TickArmed ==
    Cardinality(QueuedTicks) + (IF pc = "idle" THEN 0 ELSE 1) = 1

\* C1: at every moment exactly one tick task is pending or running on the
\* executor, whether the ticks so far succeeded or raised, and (the
\* executor thread running on) every tick is followed by a further tick.
C1_ClockNeverStops ==
    /\ []TickArmed
    /\ \A n \in 0..(MaxTicks - 1) : (ticks = n) ~> (ticks = n + 1)

\* a second tick is running after the first one raised an exception
C1_Witness == ticks = 2 /\ faulted = {1} /\ pc = "receive"

SentTicks == {sent[i] : i \in DOMAIN sent}

\* ticks that have finished their try block
TicksDone == IF pc = "receive" THEN ticks - 1 ELSE ticks

\* C2 as claimed: after N ticks have run, exactly N composites have been
\* submitted downstream.
C2_OneCompositePerTick == Len(sent) = TicksDone

\* C2 as amended: every tick that raises no exception submits exactly one
\* composite and a tick that raises submits none; composites are submitted
\* in tick order, and a tick begins only after every earlier tick has
\* either submitted its composite or handled its exception.
C2_OneCompositePerCleanTick ==
    /\ \A i \in DOMAIN sent : \A j \in DOMAIN sent : i < j => sent[i] < sent[j]
    /\ SentTicks \cup faulted = 1..TicksDone
    /\ SentTicks \cap faulted = {}
    /\ Len(sent) = TicksDone - Cardinality(faulted)

\* after two ticks and an applied operation one composite was submitted
\* and one tick raised
C2_Witness ==
    /\ pc = "idle"
    /\ ticks = 2
    /\ Len(sent) = 1
    /\ faulted # {}
    /\ napplied > 0

\* the layer id with the i-th smallest key of a layer map
KeyOfRank(layers, i) ==
    CHOOSE k \in DOMAIN layers :
        Cardinality({j \in DOMAIN layers : j <= k}) = i

\* a layer whose producer throws on every receive
Faulty(l) == layer_state(l) = "playing" /\ l.foreground = "X"

\* C3: in a tick that submits its composite, the slot of a layer whose
\* producer throws holds empty, every layer is still in the layer map, and
\* every slot holds a frame that its own layer yields by itself, whatever
\* the other layers are.
C3_LayerIsolation ==
    (pc = "rearm" /\ ~failed) =>
        /\ DOMAIN layers_ = DOMAIN tick_layers
        /\ Len(frames) = Cardinality(DOMAIN tick_layers)
        /\ \A i \in DOMAIN frames :
            LET id == KeyOfRank(tick_layers, i)
            IN  /\ \E o \in layer_receive(tick_layers[id]) :
                        o.frame = frames[i] /\ o.layer = layers_[id]
                /\ Faulty(tick_layers[id]) => frames[i] = Empty

\* a composite with a faulty layer 1 and a delivering layer 2
C3_Witness ==
    /\ pc = "rearm"
    /\ ~failed
    /\ DOMAIN tick_layers = {1, 2}
    /\ Faulty(tick_layers[1])
    /\ frames = <<Empty, Frame("A")>>

\* C4: when a tick raised an exception the tick is still running (the
\* exception did not leave it) and the layer map is empty.
C4_PanicWipe == failed => (pc = "rearm" /\ layers_ = EmptyMap)

\* a tick that began with layers in the map raised an exception
C4_Witness == failed /\ tick_layers # EmptyMap

\* C5: a layer operation or query is applied only by a step of the
\* executor taken between two ticks, and while a tick is gathering, the
\* layer map changes only by that tick's own receive or catch block.
C5_OnlyBetweenTicks ==
    [][/\ (napplied' # napplied \/ lastQuery' # lastQuery)
            => (pc = "idle" /\ pc' = "idle")
       /\ (pc # "idle" /\ layers_' # layers_)
            => (pending' # pending \/ failed')]_vars

\* an operation submitted during a tick waits in the queue while the tick
\* is still receiving from its layers
C5_Witness ==
    /\ pc = "receive"
    /\ pending # {}
    /\ \E i \in DOMAIN executor_ : executor_[i].op # "tick"

\* C6: operations are applied in the order of their submission, and a
\* query is evaluated when exactly the operations submitted before it
\* have been applied.
C6_SubmissionOrder ==
    /\ last_applied = napplied
    /\ \A i \in DOMAIN executor_ :
        executor_[i].op # "tick" =>
            /\ executor_[i].seq > napplied
            /\ \A j \in DOMAIN executor_ :
                (i < j /\ executor_[j].op # "tick")
                    => executor_[i].seq < executor_[j].seq
    /\ lastQuery.seq > 0 => lastQuery.seen = lastQuery.seq - 1

\* a query submitted after a load returns the loaded producer
C6_Witness == lastQuery.seq = 2 /\ lastQuery.value = "A"

\* the executor applies the operation at the head of its queue
Applying(ops) ==
    /\ pc = "idle"
    /\ executor_ # <<>>
    /\ Head(executor_).op \in ops
    /\ napplied' = napplied + 1

MissingLayer == Head(executor_).layer \notin DOMAIN layers_

\* C7 as claimed: every control operation addressed to a layer id that is
\* not in the layer map leaves the map as it was, and the queries return
\* no producer.
C7_MissingLayerNoOp ==
    [][/\ (Applying({"load", "play", "pause", "stop", "clear"})
            /\ MissingLayer) => layers_' = layers_
       /\ (Applying(Queries) /\ MissingLayer)
            => (layers_' = layers_ /\ lastQuery'.value = Null)]_vars

\* C7 as amended: play, pause, stop, clear and the two queries addressed
\* to a layer id that is not in the layer map leave the map as it was and
\* the queries return no producer; load creates the layer.
C7_MissingLayerNoOpButLoad ==
    [][/\ (Applying({"play", "pause", "stop", "clear"}) /\ MissingLayer)
            => layers_' = layers_
       /\ (Applying(Queries) /\ MissingLayer)
            => (layers_' = layers_ /\ lastQuery'.value = Null)
       /\ (Applying({"load"}) /\ MissingLayer)
            => DOMAIN layers_' = DOMAIN layers_ \cup {Head(executor_).layer}
      ]_vars

\* with no tick having raised, a query submitted first found no layer and
\* returned no producer, and the operation after it left the map empty
C7_Witness ==
    /\ faulted = {}
    /\ nsub = 2
    /\ napplied = 2
    /\ lastQuery.seq = 1
    /\ lastQuery.value = Null
    /\ layers_ = EmptyMap

\* ------------------------------------------------------------------------
\* Properties of the transition producer
\* ------------------------------------------------------------------------
\* the receive just returned is the (duration+1)-th
AtExpiry == t_calls = info_.duration + 1

\* the receive just returned is one of the first duration receives
BeforeExpiry == t_calls >= 1 /\ t_calls <= info_.duration

C9_MixAlphaFromZero ==
    (info_.type = "mix" /\ BeforeExpiry /\ t_result.kind = "composite") =>
        t_result.dest.alpha.num * info_.duration
            = (t_calls - 1) * t_result.dest.alpha.den

\* C10 as claimed: for every transition type each frame emitted before
\* expiry carries the audio cross-fade.
C10_CrossFadeAllTypes ==
    (BeforeExpiry /\ t_result # Eof) =>
        /\ t_result.kind = "composite"
        /\ t_result.src.audio_volume + t_result.dest.audio_volume = 255

\* C10 as amended: for mix, push, slide and wipe each frame emitted before
\* expiry is a composite whose dest volume v and source volume 255 - v
\* are set from alpha = current_frame/D, v being the integer part of
\* 256 * alpha whenever that fits 8 bits; a cut returns the frame
\* received from the source side as it is, with no volume set on it.
C10_CrossFadeUnlessCut ==
    (BeforeExpiry /\ t_result # Eof) =>
        IF info_.type = "cut"
        THEN t_result = Frame(source_producer_)
        ELSE /\ t_result.kind = "composite"
             /\ t_result.src.audio_volume + t_result.dest.audio_volume = 255
             /\ t_result.dest.audio_volume \in 0..255
             /\ current_frame_ < info_.duration =>
                    t_result.dest.audio_volume
                        = (256 * current_frame_) \div info_.duration

\* the second frame of a three-frame slide, cross-faded
C10_Witness ==
    /\ info_.type = "slide"
    /\ info_.duration = 3
    /\ t_calls = 2
    /\ t_result.kind = "composite"
    /\ t_result.dest.audio_volume = 170
    /\ t_result.src.audio_volume = 85

\* the receive just returned asked the two sides and composed
Composed == t_calls >= 1 /\ t_sides # NoSides

\* C11: in every composed frame the dest and source audio volumes sum to
\* 255, the dest volume is not below 255 * alpha of the frame before, and
\* a frame composed with alpha = 1 has dest volume 255 and source volume 0.
C11_VolumesFollowAlpha ==
    (Composed /\ t_result.kind = "composite") =>
        /\ t_result.src.audio_volume + t_result.dest.audio_volume = 255
        /\ t_result.dest.audio_volume
            >= (255 * (current_frame_ - 1)) \div info_.duration
        /\ current_frame_ = info_.duration =>
            /\ t_result.dest.audio_volume = 255
            /\ t_result.src.audio_volume = 0

\* C12 as claimed: before expiry a receive in which the source side or
\* the dest side yields eof never returns eof, whatever the type.
C12_EofSideNeverEof ==
    (Composed /\ (t_sides.dest = Eof \/ t_sides.src = Eof)) =>
        t_result # Eof

\* C12 as amended: before expiry, a mix, push, slide or wipe in which
\* exactly one side yields eof returns a composite holding an empty frame
\* on that side and the frame received on the other; when both sides
\* yield eof the transition returns eof; a cut returns what the source
\* side yielded, eof included.
C12_EofSideEmptyUnlessBothOrCut ==
    Composed =>
        IF t_sides.dest = Eof /\ t_sides.src = Eof THEN t_result = Eof
        ELSE IF info_.type = "cut" THEN t_result = t_sides.src
        ELSE /\ t_result.kind = "composite"
             /\ t_result.dest.frame
                    = (IF t_sides.dest = Eof THEN Empty ELSE t_sides.dest)
             /\ t_result.src.frame
                    = (IF t_sides.src = Eof THEN Empty ELSE t_sides.src)

\* a wipe with no source whose dest delivered: composite over an empty
\* source frame
C12_Witness ==
    /\ Composed
    /\ info_.type = "wipe"
    /\ t_sides.src = Eof
    /\ t_sides.dest = Frame("A")
    /\ t_result.kind = "composite"
    /\ t_result.src.frame = Empty

\* C13: a receive in which a side's producer throws returns normally with
\* that producer dropped; on every later receive the dropped producer is
\* not called, its side counts as eof, and the other side's producer is
\* still asked for a frame.
C13_ThrowingSideDropped ==
    [][(t_calls' = t_calls + 1) =>
        /\ "throw" \in dest_events' => dest_producer_' = Null
        /\ "throw" \in source_events' => source_producer_' = Null
        /\ "throw" \in dest_events =>
            /\ t_called'.dest = {}
            /\ t_sides' # NoSides =>
                /\ t_sides'.dest = Eof
                /\ source_producer_ # Null =>
                        source_producer_ \in t_called'.src
        /\ "throw" \in source_events =>
            /\ t_called'.src = {}
            /\ t_sides' # NoSides =>
                /\ t_sides'.src = Eof
                /\ dest_producer_ # Null =>
                        dest_producer_ \in t_called'.dest
      ]_vars

\* the dest threw on the first receive; the second receive asked only the
\* source and composed its frame over an empty dest
C13_Witness ==
    /\ t_calls = 2
    /\ Composed
    /\ org_dest_producer_ = "X"
    /\ "throw" \in dest_events
    /\ t_called = [dest |-> {}, src |-> {"S"}]
    /\ t_sides = [dest |-> Eof, src |-> Frame("S")]
    /\ t_result.kind = "composite"

\* C14: initialize is invoked at most once on every producer, and on
\* every producer that has been received it was invoked before.
C14_InitializeOnce ==
    \A p \in Producers :
        /\ init_count[p] <= 1
        /\ p \in received => init_count[p] >= 1

\* ------------------------------------------------------------------------
\* Properties of the frame muxer
\* ------------------------------------------------------------------------
\* audio samples a frame returned by poll carries
Samples(f) ==
    IF f.kind = "interlaced"
    THEN f.first.audio.n + f.second.audio.n
    ELSE f.audio.n

\* the cadence the muxer starts from, and its entry for the i-th frame
StartCadence == rotate_right(format_desc_.audio_cadence)

CadenceAt(i) == StartCadence[((i - 1) % Len(StartCadence)) + 1]

\* C15: numbering the frames returned by poll from construction, the i-th
\* frame carries cadence[i mod |cadence|] * channels audio samples, in
\* every display mode and across flush sentinels, truncations and clear.
C15_CadenceConserved ==
    \A i \in 1..Len(emitted) :
        Samples(emitted[i].frame) = CadenceAt(i) * audio_channel_layout_

\* a steady stream: no sentinel, clear, format change or overflow, and no
\* pop past the end of a sub-queue
Steady == ~disturbed /\ undefined = "none"

\* C16: in duplicate mode, on a steady stream with enough audio, the
\* frames returned by successive polls are f1,f1,f2,f2,...: each queued
\* frame twice, consecutively and in input order, the two copies carrying
\* two consecutive cadence slices of audio.
C16_DuplicateTwice ==
    (display_mode_ = "duplicate" /\ Steady) =>
        /\ \A i \in 1..Len(emitted) :
            /\ emitted[i].frame.kind = "write"
            /\ emitted[i].frame.id = (i + 1) \div 2
            /\ emitted[i].frame.audio.n
                    = CadenceAt(i) * audio_channel_layout_
            /\ i % 2 = 0 =>
                emitted[i].frame.audio.at
                    = emitted[i - 1].frame.audio.at
                        + emitted[i - 1].frame.audio.n
        /\ Len(emitted) % 2 = 1 =>
            /\ Len(frame_buffer_) = 1
            /\ frame_buffer_[1].frame.id = emitted[Len(emitted)].frame.id
        /\ Len(emitted) % 2 = 0 => frame_buffer_ = <<>>

\* two frames pushed with enough audio and polled four times
C16_Witness ==
    /\ display_mode_ = "duplicate"
    /\ Steady
    /\ Len(emitted) = 4
    /\ [i \in 1..4 |-> emitted[i].frame.id] = <<1, 1, 2, 2>>
    /\ emitted[2].frame.audio.at > emitted[1].frame.audio.at

\* C17: in half mode, on a steady stream with enough audio, successive
\* polls return the odd-numbered queued frames f1,f3,... in order; the
\* even-numbered ones are never returned.
C17_HalfOdd ==
    (display_mode_ = "half" /\ Steady) =>
        \A i \in 1..Len(emitted) :
            /\ emitted[i].frame.kind = "write"
            /\ emitted[i].frame.id = 2 * i - 1

\* four frames pushed, two polled: f1 and f3
C17_Witness ==
    /\ display_mode_ = "half"
    /\ Steady
    /\ nqueued = 4
    /\ Len(emitted) = 2
    /\ emitted[1].frame.id = 1
    /\ emitted[2].frame.id = 3
    /\ video_streams_ = <<<<>>>>

\* positions of the frames composed in interlace mode
Interlaced == {i \in 1..Len(emitted) : emitted[i].mode = "interlace"}

\* C18: every frame composed in interlace mode is the combination, for
\* the target field mode, of two frames queued one after the other on
\* the same sub-queue, in that order; no queued frame is used in two
\* emitted frames; on a steady stream the k-th emitted frame combines
\* f(2k-1) and f(2k).
C18_InterlacePairs ==
    /\ \A i \in Interlaced :
        /\ emitted[i].frame.kind = "interlaced"
        /\ emitted[i].frame.first.id >= 1
        /\ emitted[i].frame.second.id = emitted[i].frame.first.id + 1
        /\ emitted[i].frame.second.sub = emitted[i].frame.first.sub
        /\ emitted[i].frame.field_mode = format_desc_.field_mode
        /\ emitted[i].frame
            = interlace(emitted[i].frame.first, emitted[i].frame.second,
                        format_desc_.field_mode)
    /\ \A i, j \in Interlaced :
        i < j => emitted[i].frame.second.id < emitted[j].frame.first.id
    /\ (display_mode_ = "interlace" /\ Steady) =>
        \A i \in 1..Len(emitted) :
            i \in Interlaced /\ emitted[i].frame.first.id = 2 * i - 1

\* four progressive frames at twice the target rate, polled twice
C18_Witness ==
    /\ display_mode_ = "interlace"
    /\ Steady
    /\ Len(emitted) = 2
    /\ emitted[2].frame.kind = "interlaced"
    /\ emitted[2].frame.first.id = 3
    /\ emitted[2].frame.second.id = 4

\* C19: a video push throws exactly when it leaves the back video
\* sub-queue with more than 32 frames, and an audio push exactly when it
\* leaves the back audio sub-queue with more than 32 * cadence[0] *
\* channels samples; after a push that returned normally the sub-queue
\* it pushed on is within its bound.
C19_OverflowThrows ==
    /\ m_last.op = "push_video" =>
        (m_last.threw <=> Len(Back(video_streams_)) > 32)
    /\ m_last.op = "push_audio" =>
        (m_last.threw <=>
            Back(audio_streams_)
                > 32 * audio_cadence_[1] * audio_channel_layout_)

\* the thirty-third frame pushed on one sub-queue
C19_Witness ==
    /\ m_last.op = "push_video"
    /\ m_last.threw
    /\ Len(Back(video_streams_)) = 33

\* C20: a poll called while video_ready() and audio_ready() both hold and
\* a display mode is set returns a frame.
C20_ReadyPollReturnsFrame ==
    (m_last.op = "poll" /\ m_last.ready) => m_last.result = "frame"

\* the display mode a newly constructed muxer is in after the frame and
\* hint the decoder delivered last
FreshDisplayMode ==
    update_display_mode(source_.frame,
                        auto_deinterlace_ /\ source_.deinterlace_hint,
                        in_fps_, format_desc_).display_mode

\* C21: after a decoded video frame has been pushed, the display mode in
\* effect is the one the source and target frame rates and field modes and
\* the frame's width and height determine, whatever was pushed before: it
\* is the mode a muxer without history is in after the same frame.
C21_DisplayModeDeterministic ==
    (m_last.op = "push_video" /\ m_last.result # "filter_failed")
        => display_mode_ = FreshDisplayMode

VideoPushes == {"push_video", "push_empty_video", "push_flush_video"}

\* C22: a video push, a format change included, leaves the audio
\* sub-queues and the cadence rotation as they were, and an audio push
\* leaves the video sub-queues, the display mode and the filter as they
\* were.
C22_PushesAreSeparate ==
    [][/\ m_last'.op \in VideoPushes =>
            /\ audio_streams_' = audio_streams_
            /\ audio_cadence_' = audio_cadence_
       /\ m_last'.op = "push_audio" =>
            /\ video_streams_' = video_streams_
            /\ display_mode_' = display_mode_
            /\ filter_' = filter_]_vars

\* a frame of another format has reset display mode and filter while
\* audio was buffered behind a rotated cadence
C22_Witness ==
    /\ m_last.op = "push_video"
    /\ m_count.change = 1
    /\ filter_ # NoFilter
    /\ audio_streams_[1] > 0
    /\ apopped > 0
    /\ Len(audio_cadence_) > 1

\* C23: when the filter cannot be configured while a video push
\* establishes the display mode, the push returns normally, the muxer is
\* on the fast path and the pushed frame is queued.
C23_FilterFailureNotFatal ==
    m_last.result = "filter_failed" =>
        /\ ~m_last.threw
        /\ fast_path(filter_)
        /\ nqueued > 0

\* ------------------------------------------------------------------------
\* Further properties of the producer device
\* ------------------------------------------------------------------------
\* the layer the operation at the head of the queue is addressed to
Addressed == layers_[Head(executor_).layer]

\* C29: when stop is applied to a playing layer without a background
\* producer the layer stays in the layer map, stopped, so that it
\* contributes empty to the next composite before it is removed; a stopped
\* layer with a background producer stays in the layer map.
C29_StopEmitsEmptyOnce ==
    [][/\ (Applying({"stop"}) /\ ~MissingLayer
            /\ layer_state(Addressed) = "playing")
        => /\ Head(executor_).layer \in DOMAIN layers_'
           /\ layer_state(layers_'[Head(executor_).layer]) = "stopped"
       /\ (Applying({"stop"}) /\ ~MissingLayer
            /\ layer_background(Addressed) # Null)
        => Head(executor_).layer \in DOMAIN layers_']_vars

\* C30: while a tick gathers, the frames vector has one slot per layer of
\* the layer map the tick began with; receive has been called once on the
\* layer with the i-th smallest id exactly when slot i has been processed,
\* the slot then holding that layer's frame, and not at all on the layers
\* whose slots are still to be processed, in whatever order the slots are
\* processed.
C30_OneReceivePerLayer ==
    pc = "receive" =>
        /\ DOMAIN layers_ = DOMAIN tick_layers
        /\ DOMAIN frames = 1..Cardinality(DOMAIN tick_layers)
        /\ pending \subseteq DOMAIN frames
        /\ \A i \in DOMAIN frames :
            LET id == KeyOfRank(tick_layers, i)
            IN  IF i \in pending
                THEN layers_[id] = tick_layers[id] /\ frames[i] = Empty
                ELSE \E o \in layer_receive(tick_layers[id]) :
                        o.frame = frames[i] /\ o.layer = layers_[id]

\* the second of two layers has delivered its frame before the first was
\* asked
C30_Witness ==
    /\ pc = "receive"
    /\ DOMAIN tick_layers = {1, 2}
    /\ pending = {1}
    /\ frames[2] = Frame("A")
    /\ layer_state(tick_layers[1]) = "playing"

\* ------------------------------------------------------------------------
\* Properties of the consumers
\* ------------------------------------------------------------------------
\* C24: a send issued while the consumer's executor queue is at capacity
\* does not enqueue the frame and does not wait for room: the frame is
\* marked dropped and send completes at once with true, for the file
\* consumer and for the network consumer.
C24_FullQueueDrops ==
    c_last.full =>
        /\ ~c_last.enqueued
        /\ ~c_last.waited
        /\ c_last.dropped
        /\ c_last.immediate

\* C25: the number of tasks pending on an encode executor of a file
\* consumer never exceeds its capacity of 8.
C25_EncodeQueueBounded ==
    \A i \in DOMAIN encode_executor_ :
        encode_executor_[i].size <= EncodeCapacity

\* with both encode queues at capacity and neither worker running a task,
\* a frame has been dropped
C25_Witness ==
    /\ separate_key_
    /\ \A i \in DOMAIN encode_executor_ :
        /\ encode_executor_[i].size = EncodeCapacity
        /\ ~encode_executor_[i].busy
    /\ c_last.dropped
    /\ nsent = EncodeCapacity + 1

\* what a destructor does, in order, for a consumer with and without an
\* encoder that has codec delay
TeardownOrder(i) ==
    IF need_flush(i)
    THEN <<"not_ready", "stop", "join", "flush", "trailer", "close_codecs",
           "close_stream">>
    ELSE <<"not_ready", "stop", "join", "trailer", "close_codecs",
           "close_stream">>

IsPrefix(a, b) == Len(a) <= Len(b) /\ a = SubSeq(b, 1, Len(a))

Done(i, event) == \E k \in DOMAIN c_log[i] : c_log[i][k] = event

\* C26: the destructor of a file consumer first stops accepting frames,
\* then stops and joins the encode executor, after which no encode task
\* runs, then flushes and writes the delayed packets of every encoder
\* with codec delay, then writes the trailer, and only then closes the
\* codecs and the output stream.
C26_TeardownOrdered ==
    \A i \in DOMAIN c_log :
        /\ IsPrefix(c_log[i], TeardownOrder(i))
        /\ Done(i, "not_ready") => ~ready_[i]
        /\ Done(i, "join") => ~encode_executor_[i].busy
        /\ Done(i, "trailer") =>
                /\ need_flush_audio(i) => held[i].audio = 0
                /\ need_flush_video(i) => held[i].video = 0

\* the key consumer and then the fill consumer have been torn down, the
\* fill consumer after writing delayed packets of both its encoders
C26_Witness ==
    /\ c_pc = "destroyed"
    /\ separate_key_
    /\ codec_delay.audio /\ codec_delay.video
    /\ c_log["key"] = TeardownOrder("key")
    /\ c_log["fill"] = TeardownOrder("fill")
    /\ flush_.written > 1

\* C27: the teardown of a consumer, once begun, comes to an end, also
\* when an encode task never returns or an encoder returns a packet on
\* every flush call.
C27_TeardownTerminates ==
    (c_pc = "destroying") ~> (c_pc \in {"destroyed", "terminated"})

\* the 16-bit fingerprint of the consumer's configuration
Fingerprint ==
    IF c_type = "file" THEN crc16(to_lower_copy(c_name))
    ELSE ndi_crc16(c_name)

BaseIndex ==
    IF c_type = "file" THEN FileBaseIndex ELSE NDI_CONSUMER_BASE_INDEX

\* C28: the index of a consumer is its type's base offset plus a 16-bit
\* value computed from the lower-cased file name (file consumer) or the
\* sender name (network consumer) alone, and it never changes while the
\* consumer lives.
C28_IndexStable ==
    /\ [](c_type \in {"file", "ndi"} =>
            /\ index_ = BaseIndex + Fingerprint
            /\ Fingerprint \in 0..65535)
    /\ [][index_' = index_]_vars

\* a file consumer whose name has an upper-case letter is in use
C28_Witness ==
    /\ c_type = "file"
    /\ c_name = <<65, 98>>
    /\ index_ = FileBaseIndex + 36905
    /\ c_last.enqueued

\* ------------------------------------------------------------------------
\* Further properties of the frame muxer
\* ------------------------------------------------------------------------
\* the streams poll pops from, after its truncate step
Truncated ==
    truncate(video_streams_, audio_streams_, display_mode_, audio_cadence_,
             audio_channel_layout_)

\* poll is past its returns: the frame buffer is empty, the front
\* sub-queues passed video_ready2() and audio_ready2() and a display mode
\* is set, so the next poll pops
PollPops ==
    /\ undefined # "crash"
    /\ frame_buffer_ = <<>>
    /\ video_ready2_of(Truncated.video, display_mode_)
    /\ audio_ready2_of(Truncated.audio, display_mode_, audio_cadence_,
                       audio_channel_layout_)
    /\ display_mode_ # "invalid"

\* C31: the assertion of pop_audio never fails: each time poll takes an
\* audio slice, the second slice of duplicate mode included, the front
\* audio sub-queue holds at least cadence[0] * channels samples.
C31_PopAudioAssertionHolds ==
    PollPops =>
        \A a1 \in pop_audio(Truncated.audio, audio_cadence_,
                            audio_channel_layout_, apopped) :
            /\ a1.undefined = "none"
            /\ audio_pops(display_mode_) = 2 =>
                \A a2 \in pop_audio(a1.audio, a1.cadence,
                                    audio_channel_layout_, apopped) :
                    a2.undefined = "none"

\* C32: poll never pops a video frame from an empty front sub-queue: in
\* every display mode the frames it pops in one emission are present
\* when video_ready2() has passed.
C32_PopVideoNeverEmpty ==
    PollPops =>
        \A v1 \in pop_video(Truncated.video) :
            /\ v1.undefined = "none"
            /\ video_pops(display_mode_) = 2 =>
                \A v2 \in pop_video(v1.video) : v2.undefined = "none"

\* C33: in every reachable state the video stream-of-streams and the audio
\* stream-of-streams each hold at least one sub-queue, so front() and
\* back() are defined.
C33_StreamsNeverEmpty ==
    /\ Len(video_streams_) >= 1
    /\ Len(audio_streams_) >= 1

\* both streams were flushed, and a poll then dropped the front pair: one
\* sub-queue is left on each
C33_Witness ==
    /\ m_count.flush_video = 1
    /\ m_count.flush_audio = 1
    /\ m_count.clear = 0
    /\ m_last.op = "poll"
    /\ Len(video_streams_) = 1
    /\ Len(audio_streams_) = 1

\* a step of poll: the only call that leaves the call counts alone
PollStep == m_last'.op = "poll" /\ m_count' = m_count

\* queue numbers of the frames in a composed frame
FrameIds(f) ==
    IF f.kind = "interlaced" THEN {f.first.id, f.second.id} ELSE {f.id}

\* queue numbers of the frames poll handed on in a step: returned, or put
\* on the frame buffer
HandedOn ==
    UNION {FrameIds(emitted'[i].frame)
            : i \in (Len(emitted) + 1)..Len(emitted')}
        \cup UNION {FrameIds(frame_buffer_'[i].frame)
                        : i \in 1..Len(frame_buffer_')}

\* C34: poll discards front sub-queues only when both streams hold a later
\* sub-queue and the front pair cannot yield a frame; it then discards the
\* front video and the front audio sub-queue together and whole, one pair
\* per call, nothing of them being handed on; a front pair that can yield
\* a frame is never discarded.
C34_TruncatePolicy ==
    [][PollStep =>
        /\ (\/ Len(video_streams_') # Len(video_streams_)
            \/ Len(audio_streams_') # Len(audio_streams_)) =>
                /\ frame_buffer_ = <<>>
                /\ Len(video_streams_) > 1
                /\ Len(audio_streams_) > 1
                /\ ~(video_ready2 /\ audio_ready2)
                /\ Len(video_streams_') = Len(video_streams_) - 1
                /\ Len(audio_streams_') = Len(audio_streams_) - 1
                /\ Tail(video_streams_') = Tail(Tail(video_streams_))
                /\ Tail(audio_streams_') = Tail(Tail(audio_streams_))
                /\ \A i \in 1..Len(video_streams_[1]) :
                        video_streams_[1][i].id \notin HandedOn
        /\ (video_ready2 /\ audio_ready2) =>
                /\ Len(video_streams_') = Len(video_streams_)
                /\ Len(audio_streams_') = Len(audio_streams_)
    ]_vars

\* a frame was queued, both streams were flushed with no audio for the
\* frame, and a poll dropped the frame with its sub-queue: it was never
\* returned
C34_Witness ==
    /\ m_last.op = "poll"
    /\ m_count.clear = 0
    /\ nqueued >= 1
    /\ nsegments = 2
    /\ video_streams_ = <<<<>>>>
    /\ audio_streams_ = <<0>>
    /\ frame_buffer_ = <<>>
    /\ emitted = <<>>

\* ------------------------------------------------------------------------
\* Further properties of the transition
\* ------------------------------------------------------------------------
\* receive calls made on the transition so far
CallsMade == t_calls + t_skipped

\* the last receive returned eof with the duration used up
ReturnedEofExpired == t_result = Eof /\ CallsMade > info_.duration

\* C35: once a transition of duration D has returned eof because D frames
\* were emitted, every later receive returns eof too, however many calls
\* follow: the 16-bit frame counter never brings it back below D.
C35_ExpiryAbsorbing ==
    [][(ReturnedEofExpired /\ CallsMade' > CallsMade) => t_result' = Eof]_vars

\* ------------------------------------------------------------------------
\* Response of the producer device to its callers
\* ------------------------------------------------------------------------
\* ticks that run before the task at position i of the queue: the one
\* running and those queued ahead of it
TicksAhead(i) ==
    Cardinality({j \in QueuedTicks : j < i})
        + (IF pc = "idle" THEN 0 ELSE 1)

\* C36: a tick re-queues itself behind the operations already queued, so
\* every operation submitted before a tick finishes is applied before the
\* next tick begins, a submitted operation waits for at most one further
\* tick, and (the executor thread running on) every submitted operation
\* is applied.
C36_BoundedResponse ==
    /\ [](\A i \in DOMAIN executor_ :
            executor_[i].op # "tick" => TicksAhead(i) <= 1)
    /\ [][(pc = "rearm" /\ pc' = "idle") =>
            /\ QueuedTicks = {}
            /\ executor_' = Append(executor_, TickTask)]_vars
    /\ \A n \in 1..MaxOps :
            (nsub >= n) ~> (napplied >= n \/ ticks = MaxTicks)

\* operations submitted around the first tick were all applied before the
\* second tick began
C36_Witness ==
    /\ ticks = 1
    /\ pc = "idle"
    /\ nsub = MaxOps
    /\ napplied = nsub
    /\ executor_ = <<TickTask>>

\* C37: when the producer's initialize throws during load, the exception
\* reaches the caller and nothing is queued: the layer map, the queue and
\* everything the later ticks compose from are as if load had not been
\* called.
C37_FailedLoadLeavesNoTrace ==
    [][initialize_failed' # initialize_failed =>
        UNCHANGED <<layers_, executor_, pc, pending, frames, failed,
                    tick_layers, sent, faulted, ticks, nsub, napplied,
                    last_applied, lastQuery>>]_vars

\* a load failed to initialize its producer, another producer was loaded
\* and played, and a tick sent its composite
C37_Witness ==
    /\ initialize_failed = 1
    /\ sent # <<>>
    /\ layers_ # EmptyMap
    /\ \A i \in DOMAIN executor_ : executor_[i].op = "tick"

\* ------------------------------------------------------------------------
\* Further properties of the file consumer
\* ------------------------------------------------------------------------
\* a send to the file consumer has returned
FileSendReturned == c_type = "file" /\ nsent >= 1 /\ dispatcher = "idle"

\* C38: with separate_key the fill encoder and the key encoder get the
\* same frames: every frame passed to send is queued on both or on
\* neither, and when either is not ready for a frame both mark it dropped
\* and neither queues it.
C38_FillAndKeyAlike ==
    (FileSendReturned /\ separate_key_) =>
        /\ c_last.to \in {{}, {"fill", "key"}}
        /\ c_last.marked \in {{}, {"fill", "key"}}
        /\ c_last.full => (c_last.to = {} /\ c_last.marked = {"fill", "key"})

\* the key encoder's queue was full and the fill encoder's was not: the
\* frame was marked dropped on both
C38_Witness ==
    /\ FileSendReturned
    /\ separate_key_
    /\ c_last.full
    /\ c_last.marked = {"fill", "key"}
    /\ encode_executor_["key"].size = EncodeCapacity
    /\ encode_executor_["fill"].size < EncodeCapacity

\* C39 as stated: every frame passed to the file consumer's send is either
\* queued for encoding or marked dropped, exactly one of the two, with or
\* without a recorder.
C39_EnqueuedOrDropped ==
    FileSendReturned => (c_last.enqueued # c_last.dropped)

\* C39: every frame passed to the file consumer's send is queued for
\* encoding, or marked dropped, or neither, never both; it is neither
\* exactly when a recorder is attached, the encoders are ready and the
\* timecode of the frame (the recorder's when the frame has none) is set
\* and outside [tc_in, tc_out).
C39_EnqueuedDroppedOrOutOfWindow ==
    FileSendReturned =>
        /\ ~(c_last.enqueued /\ c_last.dropped)
        /\ c_last.dropped <=> c_last.full
        /\ (~c_last.enqueued /\ ~c_last.dropped) <=>
            /\ recorder_
            /\ ~c_last.full
            /\ c_last.timecode # NoTimecode
            /\ ~(c_last.timecode >= TcIn /\ c_last.timecode < TcOut)

\* a frame whose timecode is the end of the window went to a ready
\* consumer with a recorder and was neither queued nor marked
C39_Witness ==
    /\ FileSendReturned
    /\ recorder_
    /\ c_last.timecode = TcOut
    /\ ~c_last.full
    /\ ~c_last.enqueued
    /\ ~c_last.dropped

\* ------------------------------------------------------------------------
\* The video decoder (modules/ffmpeg/producer/video/video_decoder.cpp)
\* ------------------------------------------------------------------------

\* what the caller hands to push: a packet of the video stream, a packet of
\* another stream, a flush packet (data == nullptr) or no packet at all
PushKinds == {"data", "other", "flush", "nullptr"}

\* pos of a flush packet: the frame number the input seeked to
Positions == 0..1

Packet(kind, pos) == [kind |-> kind, id |-> v_pushes + 1, pos |-> pos]

DecoderConstructed ==
    /\ packets_ = <<>>
    /\ cap_delay \in BOOLEAN
    /\ buffered = <<>>
    /\ has_frame_rate \in BOOLEAN
    /\ file_frame_number_ = 0
    /\ v_result = NoPoll
    /\ v_pushes = 0
    /\ v_polls = 0
    /\ v_errors = 0
    /\ flush_pushed = 0
    /\ sentinels = 0
    /\ drained = 0
    /\ discarded = {}

\* push: keeps a packet of the decoder's stream and every flush packet
DecoderPush == \E kind \in PushKinds, pos \in Positions :
    /\ v_pushes < MaxPackets
    /\ kind = "flush" \/ pos = 0
    /\ v_pushes' = v_pushes + 1
    /\ IF kind \in {"data", "flush"}
       THEN packets_' = Append(packets_, Packet(kind, pos))
       ELSE packets_' = packets_
    /\ flush_pushed' = IF kind = "flush" THEN flush_pushed + 1
                       ELSE flush_pushed
    /\ UNCHANGED <<cap_delay, buffered, has_frame_rate, file_frame_number_,
                   v_result, v_polls, v_errors, sentinels, drained,
                   discarded>>
    /\ UNCHANGED <<deviceVars, transitionVars, muxerVars, consumerVars>>

Decoded(threw, video, held_back) ==
    [threw |-> threw, video |-> video, buffered |-> held_back]

\* avcodec_decode_video2: what the codec can do with a packet.  A flush
\* packet makes it give out the oldest frame it holds, or nothing when it
\* holds none; a codec with CODEC_CAP_DELAY takes a data packet in and
\* gives out its oldest frame or none; any other codec holds nothing and
\* gives out the packet's frame, or none (frame_finished == 0).  video is the
\* id of the packet the frame came from, 0 for no frame.
avcodec_decode_video2(pkt) ==
    LET taken == Append(buffered, pkt.id) IN
    (IF v_errors < MaxDecodeErrors
     THEN {Decoded(TRUE, 0, buffered)} ELSE {})
    \cup
    (IF pkt.kind = "flush"
     THEN IF buffered # <<>>
          THEN {Decoded(FALSE, Head(buffered), Tail(buffered))}
          ELSE {Decoded(FALSE, 0, buffered)}
     ELSE IF cap_delay
     THEN {Decoded(FALSE, Head(taken), Tail(taken))}
          \cup (IF Len(buffered) < MaxCodecDelay
                THEN {Decoded(FALSE, 0, taken)} ELSE {})
     ELSE {Decoded(FALSE, pkt.id, buffered), Decoded(FALSE, 0, buffered)})

\* the frame number decode leaves behind when it returns a frame
frame_number_after(video) ==
    IF video = 0 THEN file_frame_number_
    ELSE IF has_frame_rate THEN video
    ELSE file_frame_number_ + 1

Returned(kind, id) == [kind |-> kind, id |-> id]

\* poll with nothing queued
PollEmpty ==
    /\ packets_ = <<>>
    /\ v_result' = Returned("null", 0)
    /\ UNCHANGED <<packets_, buffered, file_frame_number_, v_errors,
                   sentinels, drained, discarded>>

\* the flush packet goes to the codec only when the codec says it delays
drains_never == FALSE

drains == cap_delay

\* poll with a flush packet in front: a frame the codec still gives out is
\* returned and the packet stays; otherwise the packet is removed, the codec
\* is reset and the sentinel is returned
PollFlush ==
    LET packet == Head(packets_) IN
    /\ packets_ # <<>>
    /\ packet.kind = "flush"
    /\ \/ /\ drains
          /\ \E d \in avcodec_decode_video2(packet) :
              /\ d.threw \/ d.video # 0
              /\ v_result' = IF d.threw THEN Returned("throw", 0)
                             ELSE Returned("frame", d.video)
              /\ v_errors' = IF d.threw THEN v_errors + 1 ELSE v_errors
              /\ drained' = IF d.threw THEN drained ELSE drained + 1
              /\ buffered' = d.buffered
              /\ file_frame_number_' = frame_number_after(d.video)
              /\ UNCHANGED <<packets_, sentinels, discarded>>
       \/ /\ drains =>
                \E d \in avcodec_decode_video2(packet) :
                    ~d.threw /\ d.video = 0
          /\ packets_' = Tail(packets_)
          /\ file_frame_number_' = packet.pos
          /\ discarded' = discarded \cup {buffered[i] : i \in DOMAIN buffered}
          /\ buffered' = <<>>
          /\ v_result' = Returned("flush_video", 0)
          /\ sentinels' = sentinels + 1
          /\ UNCHANGED <<v_errors, drained>>

\* poll with a data packet in front: the packet is removed and decoded
PollData ==
    LET packet == Head(packets_) IN
    /\ packets_ # <<>>
    /\ packet.kind = "data"
    /\ packets_' = Tail(packets_)
    /\ \E d \in avcodec_decode_video2(packet) :
        /\ v_result' = IF d.threw THEN Returned("throw", 0)
                       ELSE IF d.video = 0 THEN Returned("null", 0)
                       ELSE Returned("frame", d.video)
        /\ v_errors' = IF d.threw THEN v_errors + 1 ELSE v_errors
        /\ buffered' = d.buffered
        /\ file_frame_number_' = frame_number_after(d.video)
    /\ UNCHANGED <<sentinels, drained, discarded>>

DecoderPoll ==
    /\ v_polls < MaxPolls
    /\ v_polls' = v_polls + 1
    /\ PollEmpty \/ PollFlush \/ PollData
    /\ UNCHANGED <<cap_delay, has_frame_rate, v_pushes, flush_pushed>>
    /\ UNCHANGED <<deviceVars, transitionVars, muxerVars, consumerVars>>

DecoderInit ==
    /\ DeviceInit
    /\ TransitionIdle
    /\ MuxerIdle
    /\ ConsumerIdle
    /\ DecoderConstructed

DecoderNext == DecoderPush \/ DecoderPoll

DecoderSpec == DecoderInit /\ [][DecoderNext]_vars

\* ------------------------------------------------------------------------
\* Properties of the video decoder
\* ------------------------------------------------------------------------

FlushAtFront == packets_ # <<>> /\ Head(packets_).kind = "flush"

FlushQueued ==
    Cardinality({i \in DOMAIN packets_ : packets_[i].kind = "flush"})

Polled == v_polls' = v_polls + 1

\* C40: with a flush packet in front of the decoder's queue a poll returns
\* the oldest frame the codec still holds and leaves the queue alone, or,
\* once the codec holds none, removes the flush packet and returns the
\* sentinel (a poll whose decode throws changes nothing); the sentinel is
\* returned only for a flush packet in front, once for each, no frame is
\* thrown away by the codec's reset, and nothing queued behind the flush
\* packet is decoded or removed before the sentinel.
C40_DrainThenSentinel ==
    /\ [][FlushAtFront /\ Polled =>
            /\ v_result'.kind \in {"frame", "throw", "flush_video"}
            /\ v_result'.kind = "frame" =>
                /\ buffered # <<>>
                /\ v_result'.id = Head(buffered)
                /\ buffered' = Tail(buffered)
                /\ packets_' = packets_
            /\ v_result'.kind = "throw" =>
                /\ buffered' = buffered
                /\ packets_' = packets_
            /\ v_result'.kind = "flush_video" =>
                /\ buffered = <<>>
                /\ packets_' = Tail(packets_)]_vars
    /\ [][Polled /\ v_result'.kind = "flush_video" => FlushAtFront]_vars
    /\ [](sentinels = flush_pushed - FlushQueued)
    /\ [](discarded = {})

\* two frames were drained from the codec, then the sentinel came, and a
\* packet pushed after the flush packet is still queued
C40_Witness ==
    /\ v_result.kind = "flush_video"
    /\ sentinels = 1
    /\ drained = MaxCodecDelay
    /\ packets_ # <<>>

====
